---- MODULE Spec2Model ----
(***************************************************************************)
(* Day planner (time-boxing grid).  Two variants of the same application   *)
(* live in the repository:                                                 *)
(*   variant 1  src/unnamed/part_000  one task list, drag-and-drop with a  *)
(*              one-step undo, '+' button, templates;                     *)
(*   variant 2  src/src/index.tsx     one task list per calendar date.     *)
(* The specifications differ in the gestures the user makes.  All but the  *)
(* two that open the page on stored data start from empty storage.         *)
(*   Spec         variant 1, a user who creates tasks from the grid, drags *)
(*                them and undoes, with time passing (no form edits);      *)
(*   SpecLive     Spec with a clock that goes on and timers that fire;     *)
(*   SpecEdit     variant 1, a user who fills in the form and uses '+' (no *)
(*                dragging);                                               *)
(*   SpecMidnight variant 1, a user who puts tasks at 00:00;               *)
(*   SpecDone     variant 1, a user who makes tasks and ticks them off;    *)
(*   SpecStore    variant 1, every operation on the task list, no time;    *)
(*   SpecDrag     variant 1, drags carried over slots, dropped or let go;  *)
(*   SpecRestart  variant 1, a user who may clear the start time, moves    *)
(*                tasks, and closes and reopens the page;                  *)
(*   SpecTemplates variant 1, a user who fills the form from templates,    *)
(*                saves and deletes templates and reloads the page;        *)
(*   SpecColors   variant 1, a user who picks colours and types a title;   *)
(*   SpecBoot     variant 1, the page opened on what an earlier visit left *)
(*                in storage, tasks and settings changed;                  *)
(*   Spec2        variant 2, a user who makes, edits and completes tasks on *)
(*                today and the days after;                                *)
(*   Spec2Nav     variant 2, a user who makes tasks and goes from date to  *)
(*                date, by the buttons and by the calendar;                *)
(*   SpecSet      either variant, a user who makes tasks and changes the   *)
(*                settings;                                                *)
(*   SpecIds      either variant, every operation on the task list, in     *)
(*                variant 2 with creations that fall into one millisecond; *)
(*   Spec2Boot    variant 2, the page opened on stored data, the legacy    *)
(*                single-day key included.                                 *)
(*                                                                         *)
(* Representation.  A task is a record with the fields of the Task type.   *)
(* A Partial<Task> is a record that has only some of these fields.  null   *)
(* is the record Null.  Task ids are the numbers 1, 2, ... in the order    *)
(* they are generated.  A time string "hh:mm" is the pair <<hh, mm>>, the  *)
(* empty string the empty tuple.  A colour is the name of its entry in     *)
(* TASK_COLORS.  Titles that are Korean in the source are English here.    *)
(***************************************************************************)
EXTENDS Integers, Sequences, FiniteSets, TLC

(* ------------------------------ bounds -------------------------------- *)
\* ids that can be generated in one run (tasks ever created)
MaxIds == 2
\* largest duration the user sets in the form, in quarters of an hour
MaxQuarters == 2
\* how many dates the user navigates over
MaxDates == 2
\* templates the user saves in one run
MaxTemplates == 1

(* --------------------------- input samples ---------------------------- *)
\* grid slots (hour, quarter) the user clicks or drops on
SampleSlots == {<<0, 0>>, <<9, 0>>, <<9, 1>>}
\* grid slots the user of the drag-and-drop works on
DragSlots == {<<9, 0>>, <<9, 1>>}
\* the grid slot of a user who works on one slot
OneSlot == <<9, 0>>
\* wall-clock readings (hours, minutes) at which the '+' button is pressed
SampleClocks == {<<9, 7>>, <<23, 53>>}
\* values typed into the start-time input
SampleTimes == {<<9, 20>>}

(* ------------------------- program constants -------------------------- *)
Null == [null |-> TRUE]
\* a colour is the name of its entry in the table of the colours
TASK_COLORS == {"Slate", "Clay", "Sage", "Mustard", "Charcoal"}
DEFAULT_COLOR == "Slate"
\* the titles are Korean in the source
DEFAULT_TEMPLATES ==
    <<[id |-> "t1", title |-> "morning routine", duration |-> 30, color |-> "Clay"],
      [id |-> "t2", title |-> "focus work", duration |-> 60, color |-> "Slate"],
      [id |-> "t3", title |-> "break", duration |-> 15, color |-> "Sage"]>>
\* the title a template gets when the form's title is empty (Korean in the
\* source)
DEFAULT_TEMPLATE_TITLE == "new template"
\* the title a task gets when the form's title is empty (Korean in the source)
DEFAULT_TITLE == "new task"
\* faulty variant: the timer runs twice as long
UndoMsDouble == 2 * 5000
UNDO_MS == 5000
\* granularity of the model's clock: the undo window is two ticks long
TickMs == UNDO_MS \div 2

(* ------------------------------ helpers ------------------------------- *)
Has(r, f) == f \in DOMAIN r

\* Numbers that are no minutes of the day.  NaN is what arithmetic on
\* undefined gives; NullNum is null where a number is expected, which
\* JSON.stringify writes for NaN.
NaN == 0 - 1
NullNum == 0 - 2
\* ToNumber: null counts as 0 in a comparison or a sum.  A comparison with
\* NaN, or with a sum that has NaN in it, is false.
Num(x) == IF x = NullNum THEN 0 ELSE x

\* 'HH:MM' is the pair <<HH, MM>>.  null / 60 and null % 60 are 0, so null
\* is written as '00:00'; NaN is written as 'NaN:NaN'
formatTime24(totalMinutes) ==
    IF totalMinutes = NaN THEN <<NaN, NaN>>
    ELSE <<Num(totalMinutes) \div 60, Num(totalMinutes) % 60>>

\* the value of a time input that has been cleared: the string ""
EmptyTime == <<>>

\* "".split(':').map(Number) is [0], so h is 0, m is undefined and h * 60 + m
\* is NaN; Number('NaN') is NaN
parseTime24(timeStr) ==
    IF timeStr = EmptyTime THEN NaN
    ELSE IF timeStr[1] = NaN \/ timeStr[2] = NaN THEN NaN
    ELSE timeStr[1] * 60 + timeStr[2]

\* Array.prototype.find: of the indices whose elements satisfy the predicate
\* the first one, or 0 when there is none
FindIndex(matching) ==
    IF matching = {} THEN 0 ELSE CHOOSE i \in matching : \A j \in matching : i <= j

\* { ...t, [f]: v }
With(t, f, v) == [x \in DOMAIN t \cup {f} |-> IF x = f THEN v ELSE t[x]]

(* --------------------- pure parts of the handlers --------------------- *)
SlotStart(hour, quarter) == hour * 60 + quarter * 15

\* faulty variant: a task that ends where the slot starts counts as being in the slot
IntersectsClosed(t, hour, quarter) ==
    LET slotStart == SlotStart(hour, quarter)
        slotEnd == slotStart + 15
        tEnd == t.startMin + t.duration
    IN t.startMin < slotEnd /\ tEnd >= slotStart

Intersects(t, hour, quarter) ==
    LET slotStart == SlotStart(hour, quarter)
        slotEnd == slotStart + 15
        tEnd == Num(t.startMin) + t.duration
    IN t.startMin # NaN /\ Num(t.startMin) < slotEnd /\ tEnd > slotStart

getTaskInSlot(ts, hour, quarter) ==
    LET i == FindIndex({k \in 1..Len(ts) : Intersects(ts[k], hour, quarter)})
    IN IF i = 0 THEN Null ELSE ts[i]

\* faulty variant: a task that is saved again goes to the end of the list
saveTaskFnToEnd(prev, task) ==
    LET Other(t) == t.id # task.id
    IN Append(SelectSeq(prev, Other), task)

\* faulty variant: the task is appended whether or not its id is in the list
saveTaskFnAppends(prev, task) == Append(prev, task)

\* faulty variant: a new task is put in front of the list
saveTaskFnPrepend(prev, task) ==
    IF FindIndex({k \in 1..Len(prev) : prev[k].id = task.id}) # 0
    THEN [i \in 1..Len(prev) |-> IF prev[i].id = task.id THEN task ELSE prev[i]]
    ELSE <<task>> \o prev

saveTaskFn(prev, task) ==
    IF FindIndex({k \in 1..Len(prev) : prev[k].id = task.id}) # 0
    THEN [i \in 1..Len(prev) |-> IF prev[i].id = task.id THEN task ELSE prev[i]]
    ELSE Append(prev, task)

\* faulty variant: the task is marked completed instead of toggled
toggleFnSetsTrue(prev, id) ==
    [i \in 1..Len(prev) |->
        IF prev[i].id = id THEN With(prev[i], "isCompleted", TRUE) ELSE prev[i]]

toggleFn(prev, id) ==
    [i \in 1..Len(prev) |->
        IF prev[i].id = id
        THEN With(prev[i], "isCompleted", ~prev[i].isCompleted)
        ELSE prev[i]]

\* faulty variant: the test of the filter is the wrong way round
deleteFnKeepsMatching(prev, id) ==
    LET Same(t) == t.id = id
    IN SelectSeq(prev, Same)

deleteFn(prev, id) ==
    LET P(t) == t.id # id IN SelectSeq(prev, P)

\* faulty variant: the id test is missing, every task is moved
moveFnAll(prev, id, newStartMin) ==
    [i \in 1..Len(prev) |-> With(prev[i], "startMin", newStartMin)]

\* the updater handleDrop gives to setTasks
moveFn(prev, id, newStartMin) ==
    [i \in 1..Len(prev) |->
        IF prev[i].id = id THEN With(prev[i], "startMin", newStartMin) ELSE prev[i]]

\* faulty variant: the updater returns every task as it is
undoFnNothing(prev, rec) == prev

\* faulty variant: the id test is missing, every task is put at prevStartMin
undoFnAll(prev, rec) ==
    [i \in 1..Len(prev) |-> With(prev[i], "startMin", rec.prevStartMin)]

\* faulty variant: the task is put back as a task that is not completed
undoFnResets(prev, rec) ==
    [i \in 1..Len(prev) |->
        IF prev[i].id = rec.taskId
        THEN With(With(prev[i], "startMin", rec.prevStartMin), "isCompleted", FALSE)
        ELSE prev[i]]

\* the updater performUndo gives to setTasks
undoFn(prev, rec) ==
    [i \in 1..Len(prev) |->
        IF prev[i].id = rec.taskId
        THEN With(prev[i], "startMin", rec.prevStartMin) ELSE prev[i]]

\* faulty variant: the drop does not compare the slot with the task's start
MovedAlways(prevStartMin, newStartMin) == TRUE

\* newStartMin !== prevStartMin
Moved(prevStartMin, newStartMin) == newStartMin # prevStartMin

(* ------------------------- variant 1: state --------------------------- *)
VARIABLES
    tasks,            \* useState<Task[]>                      part_000:397
    lastUndoAction,   \* useState<UndoAction | null>           part_000:419
    undoTimeoutRef,   \* useRef<number | null>, 0 is null      part_000:420
    timers,           \* pending window.setTimeout callbacks: [h, rem]
    draggedTaskId,    \* useState<string | null>, 0 is null    part_000:422
    dragOverSlot,     \* useState<{h, q} | null>              part_000:423
    modalOpen,        \* useState(false)                       part_000:430
    editingTask,      \* useState<Partial<Task> | null>        part_000:432
    form,             \* TaskModal's title, startTimeStr, duration, color
    generated,        \* how many task ids have been generated so far
    settings,         \* useState<AppSettings>                 part_000:404
    templates,        \* useState<TaskTemplate[]>              part_000:411
    generatedT,       \* how many template ids have been generated so far
    hist,             \* history: the latest drops, undos and expiries in a row
    elapsed,          \* history: ms since the pending undo record was armed
    \* variant 2 only
    currentDate,      \* useState<string>                      index.tsx:386
    allTasks,         \* useState<Record<string, Task[]>>      index.tsx:389
    calendarOpen,     \* useState(false)                       index.tsx:427
    clockDate,        \* the calendar day of the browser's clock (new Date())
    \* both variants
    settingsOpen,     \* useState(false)          part_000:431, index.tsx:426
    settingsForm,     \* SettingsModal's wake and bed
    storage,          \* localStorage: the keys that are set, each with its blob
    loaded,           \* the page is open (App has been mounted)
    variant           \* the program that runs: 1 is part_000, 2 is index.tsx

\* state of variant 1 that variant 2 does not have
vars1 == <<tasks, lastUndoAction, undoTimeoutRef, timers, draggedTaskId, dragOverSlot,
          hist, elapsed, templates, generatedT>>
\* state of variant 2 that variant 1 does not have
vars2 == <<currentDate, allTasks, calendarOpen, clockDate>>

vars == <<tasks, lastUndoAction, undoTimeoutRef, timers, draggedTaskId, dragOverSlot,
          modalOpen, editingTask, form, generated, settings, hist, elapsed,
          templates, generatedT, currentDate, allTasks, calendarOpen,
          clockDate, settingsOpen, settingsForm, storage, loaded, variant>>

\* 'YYYY-MM-DD' is the triple <<YYYY, MM, DD>>; the day on which a run starts
Today == <<2024, 1, 1>>
DefaultSettings == [wakeTime |-> 7, bedTime |-> 23]

AllSlots == (0..23) \X (0..3)

FormDefault == [title |-> "", startTimeStr |-> <<9, 0>>, duration |-> 30,
                color |-> DEFAULT_COLOR]

(* ------------------------------ storage ------------------------------- *)
\* A blob is what a key of localStorage holds: [json |-> v] is the text that
\* JSON.stringify makes of v, [text |-> s] is any other text s (the empty
\* text, or text JSON.parse throws on).
KEY_TASKS == "daily-timebox-tasks"
KEY_SETTINGS == "daily-timebox-settings"
KEY_TEMPLATES == "daily-timebox-templates"
KEY_TASKS2 == "daily-timebox-tasks-v2"
KEY_LEGACY_TASKS == "daily-timebox-tasks"

EmptyText == [text |-> ""]
BadText == [text |-> "{oops"]

JSONstringify(v) == [json |-> v]
\* what JSON.stringify makes of the numbers of a task list: NaN is written
\* as null
ToJSON(ts) ==
    [i \in 1..Len(ts) |->
        IF ts[i].startMin = NaN THEN With(ts[i], "startMin", NullNum) ELSE ts[i]]
\* JSON.parse throws on text that is no JSON
ParseThrows(blob) == ~Has(blob, "json")
JSONparse(blob) == blob.json

\* localStorage.getItem: null when the key is not set
getItem(st, key) == IF key \in DOMAIN st THEN st[key] ELSE Null
\* localStorage.setItem
setItem(st, key, blob) == [k \in DOMAIN st \cup {key} |-> IF k = key THEN blob ELSE st[k]]
\* saved ? ... : ...  (null and the empty text are falsy)
Truthy(saved) == saved # Null /\ saved # EmptyText

\* the initializer of useState<Task[]>
LoadTasks(st) ==
    LET saved == getItem(st, KEY_TASKS)
    IN IF ~Truthy(saved) THEN <<>>
       ELSE IF ParseThrows(saved) THEN <<>>
       ELSE JSONparse(saved)

\* faulty variant: text that cannot be parsed gives settings that block no hour
LoadSettingsOtherFallback(st) ==
    LET saved == getItem(st, KEY_SETTINGS)
    IN IF ~Truthy(saved) THEN DefaultSettings
       ELSE IF ParseThrows(saved) THEN [wakeTime |-> 0, bedTime |-> 24]
       ELSE JSONparse(saved)

\* the initializer of useState<AppSettings>
LoadSettings(st) ==
    LET saved == getItem(st, KEY_SETTINGS)
    IN IF ~Truthy(saved) THEN DefaultSettings
       ELSE IF ParseThrows(saved) THEN DefaultSettings
       ELSE JSONparse(saved)

\* the initializer of useState<TaskTemplate[]>
LoadTemplates(st) ==
    LET saved == getItem(st, KEY_TEMPLATES)
    IN IF ~Truthy(saved) THEN DEFAULT_TEMPLATES
       ELSE IF ParseThrows(saved) THEN DEFAULT_TEMPLATES
       ELSE JSONparse(saved)

\* the effects that write the state back
Persist1(st, ts, se, tp) ==
    setItem(setItem(setItem(st, KEY_TASKS, JSONstringify(ToJSON(ts))),
                    KEY_SETTINGS, JSONstringify(se)),
            KEY_TEMPLATES, JSONstringify(tp))

Init ==
    /\ tasks = <<>>
    /\ lastUndoAction = Null
    /\ undoTimeoutRef = 0
    /\ timers = {}
    /\ draggedTaskId = 0
    /\ dragOverSlot = Null
    /\ modalOpen = FALSE
    /\ editingTask = Null
    /\ form = FormDefault
    /\ generated = 0
    /\ settings = DefaultSettings
    /\ hist = <<>>
    /\ elapsed = 0
    /\ currentDate = Today
    /\ clockDate = Today
    /\ allTasks = <<>>
    /\ calendarOpen = FALSE
    /\ settingsOpen = FALSE
    /\ settingsForm = [wake |-> DefaultSettings.wakeTime, bed |-> DefaultSettings.bedTime]
    /\ templates = DEFAULT_TEMPLATES
    /\ generatedT = 0
    /\ storage = Persist1(<<>>, <<>>, DefaultSettings, DEFAULT_TEMPLATES)
    /\ loaded = TRUE
    /\ variant = 1

\* faulty variant: the effect that writes the tasks back is missing
Frame1NoWrite ==
    /\ loaded
    /\ UNCHANGED <<loaded, settings, settingsOpen, settingsForm, templates, generatedT,
                   vars2, variant, storage>>

\* what no handler of the tasks of variant 1 touches, and the effects that
\* run after it
Frame1 ==
    /\ loaded
    /\ UNCHANGED <<loaded, settings, settingsOpen, settingsForm, templates, generatedT,
                   vars2, variant>>
    /\ storage' = IF tasks' # tasks
                  THEN setItem(storage, KEY_TASKS, JSONstringify(ToJSON(tasks')))
                  ELSE storage

(* ---------------------- variant 1: task modal ------------------------- *)
\* the effect that fills the form when the modal opens
InitForm(initialData) ==
    [title |-> IF Has(initialData, "title") THEN initialData.title ELSE "",
     startTimeStr |-> formatTime24(
         IF Has(initialData, "startMin") /\ initialData.startMin \notin {0, NaN, NullNum}
         THEN initialData.startMin ELSE 540),
     duration |-> IF Has(initialData, "duration") /\ initialData.duration # 0
                  THEN initialData.duration ELSE 30,
     color |-> IF Has(initialData, "color") THEN initialData.color ELSE DEFAULT_COLOR]

\* History.  hist lists the latest events of drag-and-drop and undo that
\* followed one another with no other operation in between (the passing of
\* time is no operation):
\*   [op |-> "move", id, from, to, after]  a drop that moved task id, after
\*                                  ms since the move before it (if it
\*                                  follows a move)
\*   [op |-> "same", id, at]        a drop of task id on the slot where it starts
\*   [op |-> "undo", rec, before]   performUndo, rec the pending record or Null,
\*                                  before the task list it found
\*   [op |-> "expire", at]          the timer's callback, at ms after the arming
\*   [op |-> "load", found]         the page was opened, found the storage then
\*   [op |-> "again", id, held]     variant 2: a creation got the id of the
\*                                  creation before it, held whether the
\*                                  active day's list had a task with it
\*   [op |-> "restart", before, armed]  the page was loaded again, before the
\*                                  task list then, armed whether a record
\*                                  was pending
\* A history is at most two moves and what followed them: an undo or a drop
\* on the same slot, or an expiry and the undo after it.
LastOp == IF hist = <<>> THEN "none" ELSE hist[Len(hist)].op
LastN(h, n) == IF Len(h) <= n THEN h ELSE SubSeq(h, Len(h) - n + 1, Len(h))
AfterMoves(ev, n) ==
    hist' = IF LastOp = "move" THEN Append(LastN(hist, n), ev) ELSE <<ev>>
\* any other operation starts the history afresh (picking a task up is no
\* operation of its own: it leaves the history as it is)
NoMove == hist' = <<>>
KeepClock == elapsed' = elapsed

OpenModal(initialData) ==
    /\ editingTask' = initialData
    /\ modalOpen' = TRUE
    /\ form' = InitForm(initialData)

handleSlotClick(hour, quarter) ==
    OpenModal([startMin |-> SlotStart(hour, quarter), duration |-> 30,
               color |-> DEFAULT_COLOR, isCompleted |-> FALSE])

\* A modal is drawn over the whole window (fixed inset-0, with a backdrop
\* that closes it on a click): while one is open the pointer reaches nothing
\* of the page behind it, so the slots and the task blocks, which are divs
\* and take no keyboard focus, get no click and no drag.  The buttons of the
\* page stay in the tab order and can be pressed by keyboard: their handlers
\* have no guard on the modals.

\* onClick of a grid slot.  It has no test of the settings.  (The sleep
\* overlays are drawn over the slots of the hours before wakeTime and from
\* bedTime on; whether they take the pointer is set by a stylesheet, not by
\* this code.  The action is the handler, run when a click gets to the slot.)
ClickSlot(hour, quarter) ==
    /\ ~modalOpen /\ ~settingsOpen
    /\ LET task == getTaskInSlot(tasks, hour, quarter)
       IN IF task # Null THEN OpenModal(task) ELSE handleSlotClick(hour, quarter)
    /\ NoMove /\ KeepClock
    /\ UNCHANGED <<tasks, lastUndoAction, undoTimeoutRef, timers, draggedTaskId, dragOverSlot, generated>>
    /\ Frame1

\* Math.round(minutes / 15) * 15
RoundQuarter(minutes) == ((2 * minutes + 15) \div 30) * 15

\* onClick of the '+' button; when the modal is open already its effect runs
\* again on the new initialData
ClickPlus(hours, minutes) ==
    /\ OpenModal([startMin |-> hours * 60 + RoundQuarter(minutes)])
    /\ NoMove /\ KeepClock
    /\ UNCHANGED <<tasks, lastUndoAction, undoTimeoutRef, timers, draggedTaskId, dragOverSlot, generated>>
    /\ Frame1

FormEdit(f, v) ==
    /\ modalOpen
    /\ form' = With(form, f, v)
    /\ form' # form
    /\ NoMove /\ KeepClock
    /\ UNCHANGED <<tasks, lastUndoAction, undoTimeoutRef, timers, draggedTaskId, dragOverSlot,
                   modalOpen, editingTask, generated>>
    /\ Frame1

SetTitle(v) == FormEdit("title", v)
SetStartTimeStr(v) == FormEdit("startTimeStr", v)
\* onClick of a button of the colour picker
SetColor(c) == c \in TASK_COLORS /\ FormEdit("color", c)
DurationMinus == FormEdit("duration", IF form.duration - 15 > 15 THEN form.duration - 15 ELSE 15)
DurationPlus == form.duration + 15 <= MaxQuarters * 15 /\ FormEdit("duration", form.duration + 15)

SubmittedTask(id) ==
    [id |-> id,
     title |-> IF form.title # "" THEN form.title ELSE DEFAULT_TITLE,
     startMin |-> parseTime24(form.startTimeStr),
     duration |-> form.duration,
     color |-> form.color,
     isCompleted |-> Has(editingTask, "isCompleted") /\ editingTask.isCompleted]

handleSubmit ==
    /\ modalOpen
    /\ IF Has(editingTask, "id")
       THEN /\ tasks' = saveTaskFn(tasks, SubmittedTask(editingTask.id))
            /\ generated' = generated
       ELSE /\ generated < MaxIds
            /\ tasks' = saveTaskFn(tasks, SubmittedTask(generated + 1))
            /\ generated' = generated + 1
    /\ modalOpen' = FALSE
    /\ NoMove /\ KeepClock
    /\ UNCHANGED <<lastUndoAction, undoTimeoutRef, timers, draggedTaskId, dragOverSlot, editingTask, form>>
    /\ Frame1

handleDelete ==
    /\ modalOpen
    /\ Has(editingTask, "id")
    /\ tasks' = deleteFn(tasks, editingTask.id)
    /\ modalOpen' = FALSE
    /\ NoMove /\ KeepClock
    /\ UNCHANGED <<lastUndoAction, undoTimeoutRef, timers, draggedTaskId, dragOverSlot, editingTask,
                   form, generated>>
    /\ Frame1

onClose ==
    /\ modalOpen
    /\ modalOpen' = FALSE
    /\ NoMove /\ KeepClock
    /\ UNCHANGED <<tasks, lastUndoAction, undoTimeoutRef, timers, draggedTaskId, dragOverSlot,
                   editingTask, form, generated>>
    /\ Frame1

(* ----------------------- variant 1: templates ------------------------ *)
\* what no handler of the templates touches, and the effect that runs after
\* it
TemplateFrame ==
    /\ loaded /\ modalOpen
    /\ NoMove /\ KeepClock
    /\ UNCHANGED <<tasks, lastUndoAction, undoTimeoutRef, timers, draggedTaskId, dragOverSlot,
                   modalOpen, editingTask, generated, loaded, settings, settingsOpen,
                   settingsForm, vars2, variant>>
    /\ storage' = IF templates' # templates
                  THEN setItem(storage, KEY_TEMPLATES, JSONstringify(templates'))
                  ELSE storage

\* onClick of the button of the i-th template:
\* setTitle(t.title); setDuration(t.duration); setColor(t.color)
ApplyTemplate(i) ==
    /\ i \in 1..Len(templates)
    /\ form' = With(With(With(form, "title", templates[i].title),
                          "duration", templates[i].duration),
                     "color", templates[i].color)
    /\ UNCHANGED <<templates, generatedT>>
    /\ TemplateFrame

\* crypto.randomUUID() for the n-th template that is saved
TemplateId(n) == "u" \o ToString(n)

\* the template the form is saved as
SavedTemplate(id) ==
    [id |-> id,
     title |-> IF form.title # "" THEN form.title ELSE DEFAULT_TEMPLATE_TITLE,
     duration |-> form.duration,
     color |-> form.color]

\* onClick of the button that saves the form as a template:
\* setTemplates([...templates, t])
handleSaveAsTemplate ==
    /\ generatedT < MaxTemplates
    /\ templates' = Append(templates, SavedTemplate(TemplateId(generatedT + 1)))
    /\ generatedT' = generatedT + 1
    /\ UNCHANGED form
    /\ TemplateFrame

\* prev => prev.filter(t => t.id !== id)
deleteTemplateFn(prev, id) ==
    LET P(t) == t.id # id IN SelectSeq(prev, P)

\* onClick of the delete button of the i-th template
onDeleteTemplate(i) ==
    /\ i \in 1..Len(templates)
    /\ templates' = deleteTemplateFn(templates, templates[i].id)
    /\ UNCHANGED <<form, generatedT>>
    /\ TemplateFrame

(* ------------------------ variant 1: the grid ------------------------- *)
\* the slots of the grid in the hours the task spans: the only slots whose
\* getTaskInSlot can be the task
SlotsNear(t) ==
    IF t.startMin = NaN THEN {}
    ELSE {s \in AllSlots : /\ s[1] * 60 < Num(t.startMin) + t.duration
                           /\ s[1] * 60 + 60 > Num(t.startMin)}

\* the task is drawn in some slot of the grid
Drawn(ts, t) == \E s \in SlotsNear(t) : getTaskInSlot(ts, s[1], s[2]) = t

\* the completion button of the task is drawn in some slot
ShowContent(ts, t) ==
    \E s \in SlotsNear(t) :
        /\ getTaskInSlot(ts, s[1], s[2]) = t
        /\ \/ t.startMin = SlotStart(s[1], s[2])
           \/ s[2] = 0 /\ t.startMin # NaN /\ Num(t.startMin) < s[1] * 60

toggleTaskCompletion(id) ==
    /\ \E i \in 1..Len(tasks) : tasks[i].id = id /\ ShowContent(tasks, tasks[i])
    /\ tasks' = toggleFn(tasks, id)
    /\ NoMove /\ KeepClock
    /\ UNCHANGED <<lastUndoAction, undoTimeoutRef, timers, draggedTaskId, dragOverSlot, modalOpen,
                   editingTask, form, generated>>
    /\ Frame1

\* faulty variant: starting a drag discards the pending undo record
handleDragStartForgets(id) ==
    /\ ~modalOpen /\ ~settingsOpen
    /\ \E i \in 1..Len(tasks) : tasks[i].id = id /\ Drawn(tasks, tasks[i])
    /\ draggedTaskId' = id
    /\ UNCHANGED dragOverSlot
    /\ KeepClock
    /\ lastUndoAction' = Null
    /\ UNCHANGED <<tasks, undoTimeoutRef, timers, modalOpen,
                   editingTask, form, generated, hist>>
    /\ Frame1

handleDragStart(id) ==
    /\ ~modalOpen /\ ~settingsOpen
    /\ \E i \in 1..Len(tasks) : tasks[i].id = id /\ Drawn(tasks, tasks[i])
    /\ draggedTaskId' = id
    /\ UNCHANGED dragOverSlot
    /\ KeepClock
    /\ UNCHANGED <<tasks, lastUndoAction, undoTimeoutRef, timers, modalOpen,
                   editingTask, form, generated, hist>>
    /\ Frame1

\* dragover on the slot (hour, quarter): any drag over the grid fires it
handleDragOver(hour, quarter) ==
    /\ ~modalOpen /\ ~settingsOpen
    /\ dragOverSlot' = [h |-> hour, q |-> quarter]
    /\ KeepClock
    /\ UNCHANGED <<tasks, lastUndoAction, undoTimeoutRef, timers, draggedTaskId,
                   modalOpen, editingTask, form, generated, hist>>
    /\ Frame1

\* dragleave on a slot
handleDragLeave ==
    /\ ~modalOpen /\ ~settingsOpen
    /\ dragOverSlot' = Null
    /\ KeepClock
    /\ UNCHANGED <<tasks, lastUndoAction, undoTimeoutRef, timers, draggedTaskId,
                   modalOpen, editingTask, form, generated, hist>>
    /\ Frame1

\* faulty variant: the timer goes on running
ClearTimeoutNothing(tm, h) == tm

\* window.clearTimeout(h)
ClearTimeout(tm, h) == {t \in tm : t.h # h}
\* the handle window.setTimeout returns: one no pending timer has
NewHandle(tm) == CHOOSE h \in 1..(Cardinality(tm) + 1) :
                    (\A t \in tm : t.h # h) /\ \A k \in 1..(h - 1) : \E t \in tm : t.h = k

handleDrop(hour, quarter) ==
    /\ ~modalOpen /\ ~settingsOpen
    /\ LET i == FindIndex({k \in 1..Len(tasks) : tasks[k].id = draggedTaskId})
           newStartMin == SlotStart(hour, quarter)
       IN IF draggedTaskId # 0 /\ i # 0 /\ Moved(tasks[i].startMin, newStartMin)
          THEN LET cleared == IF undoTimeoutRef # 0
                              THEN ClearTimeout(timers, undoTimeoutRef) ELSE timers
                   h == NewHandle(cleared)
               IN /\ tasks' = moveFn(tasks, draggedTaskId, newStartMin)
                  /\ lastUndoAction' = [taskId |-> draggedTaskId,
                                        prevStartMin |-> tasks[i].startMin]
                  /\ timers' = cleared \cup {[h |-> h, rem |-> UNDO_MS]}
                  /\ undoTimeoutRef' = h
                  /\ AfterMoves([op |-> "move", id |-> draggedTaskId,
                                 from |-> tasks[i].startMin, to |-> newStartMin,
                                 after |-> elapsed], 1)
                  /\ elapsed' = 0
          ELSE /\ UNCHANGED <<tasks, lastUndoAction, timers, undoTimeoutRef>>
               /\ IF draggedTaskId # 0 /\ i # 0
                  THEN AfterMoves([op |-> "same", id |-> draggedTaskId,
                                   at |-> newStartMin], 2)
                  ELSE NoMove
               /\ KeepClock
    /\ draggedTaskId' = 0
    /\ dragOverSlot' = Null
    /\ UNCHANGED <<modalOpen, editingTask, form, generated>>
    /\ Frame1

performUndo ==
    /\ IF lastUndoAction # Null
       THEN /\ tasks' = undoFn(tasks, lastUndoAction)
            /\ lastUndoAction' = Null
            /\ timers' = IF undoTimeoutRef # 0
                         THEN ClearTimeout(timers, undoTimeoutRef) ELSE timers
       ELSE UNCHANGED <<tasks, lastUndoAction, timers>>
    /\ IF lastUndoAction # Null
       THEN AfterMoves([op |-> "undo", rec |-> lastUndoAction, before |-> tasks], 2)
       ELSE IF LastOp = "expire"
       THEN hist' = Append(hist, [op |-> "undo", rec |-> Null, before |-> tasks])
       ELSE NoMove
    /\ elapsed' = 0
    /\ UNCHANGED <<undoTimeoutRef, draggedTaskId, dragOverSlot, modalOpen, editingTask, form, generated>>
    /\ Frame1

\* faulty variant: the callback leaves the undo record in place
undoTimeoutKeeps(t) ==
    /\ t \in timers /\ t.rem = 0
    /\ timers' = timers \ {t}
    /\ lastUndoAction' = lastUndoAction
    /\ AfterMoves([op |-> "expire", at |-> elapsed], 1)
    /\ elapsed' = 0
    /\ UNCHANGED <<tasks, undoTimeoutRef, draggedTaskId, dragOverSlot, modalOpen, editingTask,
                   form, generated>>
    /\ Frame1

\* the callback given to window.setTimeout
undoTimeout(t) ==
    /\ t \in timers /\ t.rem = 0
    /\ timers' = timers \ {t}
    /\ lastUndoAction' = Null
    /\ AfterMoves([op |-> "expire", at |-> elapsed], 1)
    /\ elapsed' = 0
    /\ UNCHANGED <<tasks, undoTimeoutRef, draggedTaskId, dragOverSlot, modalOpen, editingTask,
                   form, generated>>
    /\ Frame1

\* TickMs of time pass; a timer that is due runs before more time passes
Tick ==
    /\ timers # {} \/ lastUndoAction # Null
    /\ \A t \in timers : t.rem > 0
    /\ timers' = {[h |-> t.h, rem |-> t.rem - TickMs] : t \in timers}
    /\ elapsed' = IF elapsed <= UNDO_MS THEN elapsed + TickMs ELSE elapsed
    /\ UNCHANGED <<tasks, lastUndoAction, undoTimeoutRef, draggedTaskId, dragOverSlot, modalOpen,
                   editingTask, form, generated, hist>>
    /\ Frame1

(* ------------------- settings modal (both variants) ------------------- *)
\* what no handler of the settings touches
SettingsFrame ==
    /\ loaded
    /\ NoMove /\ KeepClock
    /\ UNCHANGED <<tasks, lastUndoAction, undoTimeoutRef, timers, draggedTaskId, dragOverSlot,
                   modalOpen, editingTask, form, generated, templates, generatedT,
                   vars2, loaded, variant>>

\* onClick of the settings button; the modal's effect copies the settings.
\* When the modal is open already, setSettingsOpen(true) changes nothing.
OpenSettings ==
    /\ ~settingsOpen
    /\ settingsOpen' = TRUE
    /\ settingsForm' = [wake |-> settings.wakeTime, bed |-> settings.bedTime]
    /\ UNCHANGED <<settings, storage>>
    /\ SettingsFrame

SetWake(v) ==
    /\ settingsOpen
    /\ settingsForm' = [settingsForm EXCEPT !.wake = v]
    /\ settingsForm' # settingsForm
    /\ UNCHANGED <<settings, settingsOpen, storage>>
    /\ SettingsFrame

SetBed(v) ==
    /\ settingsOpen
    /\ settingsForm' = [settingsForm EXCEPT !.bed = v]
    /\ settingsForm' # settingsForm
    /\ UNCHANGED <<settings, settingsOpen, storage>>
    /\ SettingsFrame

\* onClick of the save button: onSave({ wakeTime: wake, bedTime: bed }); onClose()
SaveSettings ==
    /\ settingsOpen
    /\ settings' = [wakeTime |-> settingsForm.wake, bedTime |-> settingsForm.bed]
    /\ settingsOpen' = FALSE
    /\ storage' = setItem(storage, KEY_SETTINGS, JSONstringify(settings'))
    /\ UNCHANGED settingsForm
    /\ SettingsFrame

CloseSettings ==
    /\ settingsOpen
    /\ settingsOpen' = FALSE
    /\ UNCHANGED <<settings, settingsForm, storage>>
    /\ SettingsFrame

(* ------------------------- variant 1: startup ------------------------- *)
\* the storage that holds the blobs that are not Null under their keys
MakeStorage(entries) ==
    [k \in {e[1] : e \in {x \in entries : x[2] # Null}} |->
        (CHOOSE e \in entries : e[1] = k)[2]]

StoredTask == [id |-> 1, title |-> "L", startMin |-> 540, duration |-> 30,
               color |-> DEFAULT_COLOR, isCompleted |-> FALSE]
StoredSettings == [wakeTime |-> 6, bedTime |-> 22]
StoredTemplate == [id |-> "s1", title |-> "M", duration |-> 45, color |-> "Mustard"]

\* what the page may find in localStorage when it is opened
SampleStorage1 ==
    {MakeStorage({<<KEY_TASKS, t>>, <<KEY_SETTINGS, se>>, <<KEY_TEMPLATES, tp>>}) :
        t \in {Null, EmptyText, BadText, JSONstringify(<<StoredTask>>)},
        se \in {Null, BadText, JSONstringify(StoredSettings)},
        tp \in {Null, BadText, JSONstringify(<<StoredTemplate>>)}}

\* the largest id among the tasks
MaxId(ts) == IF ts = <<>> THEN 0
             ELSE CHOOSE n \in {ts[i].id : i \in 1..Len(ts)} :
                     \A i \in 1..Len(ts) : ts[i].id <= n

\* the page is not open yet
InitOff ==
    /\ tasks = <<>>
    /\ lastUndoAction = Null
    /\ undoTimeoutRef = 0
    /\ timers = {}
    /\ draggedTaskId = 0
    /\ dragOverSlot = Null
    /\ modalOpen = FALSE
    /\ editingTask = Null
    /\ form = FormDefault
    /\ generated = 0
    /\ settings = DefaultSettings
    /\ hist = <<>>
    /\ elapsed = 0
    /\ currentDate = Today
    /\ clockDate = Today
    /\ allTasks = <<>>
    /\ calendarOpen = FALSE
    /\ settingsOpen = FALSE
    /\ settingsForm = [wake |-> DefaultSettings.wakeTime, bed |-> DefaultSettings.bedTime]
    /\ templates = DEFAULT_TEMPLATES
    /\ generatedT = 0
    /\ storage \in SampleStorage1
    /\ loaded = FALSE
    /\ variant = 1

\* the page is opened: App is mounted, its state is initialized from the
\* storage and the effects write it back
Load ==
    /\ ~loaded
    /\ loaded' = TRUE
    /\ tasks' = LoadTasks(storage)
    /\ settings' = LoadSettings(storage)
    /\ settingsForm' = [wake |-> settings'.wakeTime, bed |-> settings'.bedTime]
    /\ generated' = MaxId(tasks')
    /\ templates' = LoadTemplates(storage)
    /\ storage' = Persist1(storage, tasks', settings', templates')
    /\ hist' = <<[op |-> "load", found |-> storage]>>
    /\ UNCHANGED <<generatedT, lastUndoAction, undoTimeoutRef, timers, draggedTaskId, dragOverSlot, modalOpen,
                   editingTask, form, elapsed, settingsOpen, vars2, variant>>

\* the page is closed (or reloaded) and opened again: the window's timers
\* are gone with it, every useState starts from its initializer, the task
\* list and the settings from the storage
Restart ==
    /\ loaded
    /\ tasks' = LoadTasks(storage)
    /\ settings' = LoadSettings(storage)
    /\ settingsForm' = [wake |-> settings'.wakeTime, bed |-> settings'.bedTime]
    /\ templates' = LoadTemplates(storage)
    /\ storage' = Persist1(storage, tasks', settings', templates')
    /\ lastUndoAction' = Null
    /\ undoTimeoutRef' = 0
    /\ timers' = {}
    /\ draggedTaskId' = 0
    /\ dragOverSlot' = Null
    /\ modalOpen' = FALSE
    /\ editingTask' = Null
    /\ form' = FormDefault
    /\ settingsOpen' = FALSE
    /\ hist' = <<[op |-> "restart", before |-> tasks, armed |-> lastUndoAction # Null]>>
    /\ elapsed' = 0
    /\ UNCHANGED <<generated, generatedT, loaded, vars2, variant>>

\* variant 1, a user who works on the grid: clicks slots, confirms the form as
\* it opens, drags, undoes
Next ==
    \/ \E s \in DragSlots : ClickSlot(s[1], s[2])
    \/ handleSubmit
    \/ handleDelete
    \/ onClose
    \/ \E id \in 1..MaxIds : handleDragStart(id)
    \/ \E s \in DragSlots : handleDrop(s[1], s[2])
    \/ performUndo
    \/ \E t \in timers : undoTimeout(t)
    \/ Tick

Spec == Init /\ [][Next]_vars

\* the same with time that goes on: the browser keeps its clock running and
\* runs a setTimeout callback once it is due; the user is free to stop
SpecLive ==
    /\ Init /\ [][Next]_vars
    /\ WF_vars(Tick)
    /\ WF_vars(\E t \in timers : undoTimeout(t))

\* variant 1, a user who fills in the form: '+' button, start time, duration
NextEdit ==
    \/ \E s \in SampleSlots : ClickSlot(s[1], s[2])
    \/ \E c \in SampleClocks : ClickPlus(c[1], c[2])
    \/ \E v \in SampleTimes : SetStartTimeStr(v)
    \/ DurationMinus
    \/ DurationPlus
    \/ handleSubmit
    \/ handleDelete
    \/ onClose

SpecEdit == Init /\ [][NextEdit]_vars

\* variant 1, a user who ticks tasks off: makes tasks, deletes them, toggles
\* their completion
NextDone ==
    \/ \E s \in SampleSlots : ClickSlot(s[1], s[2])
    \/ handleSubmit
    \/ handleDelete
    \/ onClose
    \/ \E id \in 1..MaxIds : toggleTaskCompletion(id)

SpecDone == Init /\ [][NextDone]_vars

\* the start time of a task at midnight
Midnight == <<0, 0>>

\* variant 1, a user who puts tasks at midnight: opens forms from the grid,
\* types 00:00 as start time, changes the duration, saves, reopens, deletes
NextMidnight ==
    \/ \E s \in SampleSlots : ClickSlot(s[1], s[2])
    \/ SetStartTimeStr(Midnight)
    \/ DurationMinus
    \/ DurationPlus
    \/ handleSubmit
    \/ handleDelete
    \/ onClose

SpecMidnight == Init /\ [][NextMidnight]_vars

\* variant 1, a user who changes the task list in every way there is, with
\* no time passing
NextStore ==
    \/ \E s \in DragSlots : ClickSlot(s[1], s[2])
    \/ handleSubmit
    \/ handleDelete
    \/ onClose
    \/ \E id \in 1..MaxIds : toggleTaskCompletion(id)
    \/ \E id \in 1..MaxIds : handleDragStart(id)
    \/ \E s \in DragSlots : handleDrop(s[1], s[2])
    \/ performUndo

SpecStore == Init /\ [][NextStore]_vars

\* variant 1, a user who drags: makes tasks, starts drags, carries them over
\* slots and off the grid, drops them or lets go outside every slot (no
\* handler runs then: the page has no dragend handler), and takes moves back
NextDrag ==
    \/ \E s \in DragSlots : ClickSlot(s[1], s[2])
    \/ handleSubmit
    \/ onClose
    \/ \E id \in 1..MaxIds : handleDragStart(id)
    \/ \E s \in DragSlots : handleDragOver(s[1], s[2])
    \/ handleDragLeave
    \/ \E s \in DragSlots : handleDrop(s[1], s[2])
    \/ performUndo

SpecDrag == Init /\ [][NextDrag]_vars

\* variant 1, a user who makes tasks, clears the start time of the form or
\* leaves it, moves tasks, takes moves back, and closes and reopens the page
NextRestart ==
    \/ \E s \in DragSlots : ClickSlot(s[1], s[2])
    \/ SetStartTimeStr(EmptyTime)
    \/ handleSubmit
    \/ onClose
    \/ \E id \in 1..MaxIds : handleDragStart(id)
    \/ \E s \in DragSlots : handleDrop(s[1], s[2])
    \/ performUndo
    \/ Restart

SpecRestart == Init /\ [][NextRestart]_vars

\* hours chosen in the settings modal
SampleWake == {10}
SampleBed == {22}


\* variant 1, a user who fills the form from templates, saves and deletes
\* templates, and loads the page again
NextTemplates ==
    \/ ClickSlot(OneSlot[1], OneSlot[2])
    \/ \E i \in 1..(Len(DEFAULT_TEMPLATES) + MaxTemplates) : ApplyTemplate(i)
    \/ handleSaveAsTemplate
    \/ \E i \in 1..(Len(DEFAULT_TEMPLATES) + MaxTemplates) : onDeleteTemplate(i)
    \/ handleSubmit
    \/ handleDelete
    \/ onClose
    \/ Restart

SpecTemplates == Init /\ [][NextTemplates]_vars

\* variant 1, a user who picks colours and types a title
NextColors ==
    \/ \E s \in DragSlots : ClickSlot(s[1], s[2])
    \/ SetTitle("A")
    \/ \E c \in TASK_COLORS : SetColor(c)
    \/ handleSubmit
    \/ handleDelete
    \/ onClose

SpecColors == Init /\ [][NextColors]_vars

\* variant 1, a user who opens the page on what an earlier visit stored, makes
\* and deletes tasks, and changes the settings
NextBoot ==
    \/ Load
    \/ \E s \in DragSlots : ClickSlot(s[1], s[2])
    \/ \E i \in 1..Len(DEFAULT_TEMPLATES) : ApplyTemplate(i)
    \/ handleSubmit
    \/ handleDelete
    \/ onClose
    \/ OpenSettings
    \/ \E v \in SampleWake : SetWake(v)
    \/ \E v \in SampleBed : SetBed(v)
    \/ SaveSettings
    \/ CloseSettings

SpecBoot == InitOff /\ [][NextBoot]_vars

(* ----------------------------- variant 2 ------------------------------ *)
DEFAULT_COLOR2 == "Red"

\* formatDate(new Date()): the day the clock shows when it is called
getTodayString == clockDate

\* faulty variant: the list of the older version is looked at first
LoadAllTasksLegacyFirst(st, today) ==
    LET saved == getItem(st, KEY_TASKS2)
        legacy == getItem(st, KEY_LEGACY_TASKS)
    IN IF Truthy(legacy)
       THEN IF ParseThrows(legacy) THEN <<>>
            ELSE [d \in {today} |-> JSONparse(legacy)]
       ELSE IF Truthy(saved)
       THEN IF ParseThrows(saved) THEN <<>> ELSE JSONparse(saved)
       ELSE <<>>

\* the initializer of useState<Record<string, Task[]>>, with the migration
\* of the list an older version stored; today is what its own call of
\* getTodayString() returns
LoadAllTasks(st, today) ==
    LET saved == getItem(st, KEY_TASKS2)
        legacy == getItem(st, KEY_LEGACY_TASKS)
    IN IF Truthy(saved)
       THEN IF ParseThrows(saved) THEN <<>> ELSE JSONparse(saved)
       ELSE IF Truthy(legacy)
       THEN IF ParseThrows(legacy) THEN <<>>
            ELSE [d \in {today} |-> JSONparse(legacy)]
       ELSE <<>>

\* the effects that write the state back
Persist2(st, all, se) ==
    setItem(setItem(st, KEY_TASKS2, JSONstringify(all)), KEY_SETTINGS, JSONstringify(se))

\* what no handler of the tasks of variant 2 touches, and the effects that
\* run after it
Frame2 ==
    /\ loaded
    /\ UNCHANGED <<loaded, settings, settingsOpen, settingsForm, vars1, clockDate, variant>>
    /\ storage' = IF allTasks' # allTasks
                  THEN setItem(storage, KEY_TASKS2, JSONstringify(allTasks'))
                  ELSE storage

IsLeap(y) == (y % 4 = 0 /\ y % 100 # 0) \/ y % 400 = 0

DaysInMonth(y, m) ==
    IF m = 2 THEN (IF IsLeap(y) THEN 29 ELSE 28)
    ELSE IF m \in {4, 6, 9, 11} THEN 30 ELSE 31

\* addDays for days = 1 and days = -1: Date.setDate rolls months and years over
addDays(dateStr, days) ==
    LET y == dateStr[1]
        m == dateStr[2]
        d == dateStr[3] + days
    IN IF d < 1
       THEN IF m = 1 THEN <<y - 1, 12, 31>>
            ELSE <<y, m - 1, DaysInMonth(y, m - 1)>>
       ELSE IF d > DaysInMonth(y, m)
       THEN IF m = 12 THEN <<y + 1, 1, 1>> ELSE <<y, m + 1, 1>>
       ELSE <<y, m, d>>

\* the date and the n dates that follow it in steps of step days
RECURSIVE DaysFrom(_, _, _)
DaysFrom(d, n, step) ==
    IF n = 0 THEN {d} ELSE {d} \cup DaysFrom(addDays(d, step), n - 1, step)

\* the dates the user navigates to: a window of MaxDates days around today
SampleDates ==
    DaysFrom(Today, (MaxDates - 1) \div 2, -1) \cup DaysFrom(Today, MaxDates \div 2, 1)

\* the list has a task with this id
HasTask(ts, id) == \E i \in 1..Len(ts) : ts[i].id = id

\* prev[currentDate] || []
TasksOf(all, date) == IF date \in DOMAIN all THEN all[date] ELSE <<>>

\* faulty variant: the spread of prev is missing, the mapping keeps the active date only
setTasksNoSpread(updated) ==
    allTasks' = [d \in {currentDate} |-> updated]

\* { ...prev, [currentDate]: updated }
setTasks(updated) ==
    allTasks' = [d \in DOMAIN allTasks \cup {currentDate} |->
                    IF d = currentDate THEN updated ELSE allTasks[d]]

Init2 ==
    /\ tasks = <<>>
    /\ lastUndoAction = Null
    /\ undoTimeoutRef = 0
    /\ timers = {}
    /\ draggedTaskId = 0
    /\ dragOverSlot = Null
    /\ modalOpen = FALSE
    /\ editingTask = Null
    /\ form = [title |-> "", startTime |-> <<>>, duration |-> 30, color |-> DEFAULT_COLOR2]
    /\ generated = 0
    /\ settings = DefaultSettings
    /\ hist = <<>>
    /\ elapsed = 0
    /\ currentDate = Today
    /\ clockDate = Today
    /\ allTasks = <<>>
    /\ calendarOpen = FALSE
    /\ settingsOpen = FALSE
    /\ settingsForm = [wake |-> DefaultSettings.wakeTime, bed |-> DefaultSettings.bedTime]
    /\ templates = <<>>
    /\ generatedT = 0
    /\ storage = Persist2(<<>>, <<>>, DefaultSettings)
    /\ loaded = TRUE
    /\ variant = 2

\* the effect that fills the form when the modal opens
InitForm2(initialData) ==
    [title |-> IF Has(initialData, "title") THEN initialData.title ELSE "",
     startTime |-> IF Has(initialData, "startMin")
                   THEN formatTime24(initialData.startMin) ELSE <<>>,
     duration |-> IF Has(initialData, "duration") /\ initialData.duration # 0
                  THEN initialData.duration ELSE 30,
     color |-> IF Has(initialData, "color") THEN initialData.color ELSE DEFAULT_COLOR2]

OpenModal2(initialData) ==
    /\ editingTask' = initialData
    /\ modalOpen' = TRUE
    /\ form' = InitForm2(initialData)

handleSlotClick2(hour, quarter) ==
    OpenModal2([startMin |-> SlotStart(hour, quarter), duration |-> 30,
                color |-> DEFAULT_COLOR2])

\* faulty variant: the hours from bedTime on are not blocked
isBlockedWakeOnly(hour) == hour < settings.wakeTime

isBlocked(hour) == hour < settings.wakeTime \/ hour >= settings.bedTime

\* onClick of a grid slot
ClickSlot2(hour, quarter) ==
    /\ ~modalOpen /\ ~calendarOpen /\ ~settingsOpen
    /\ LET task == getTaskInSlot(TasksOf(allTasks, currentDate), hour, quarter)
       IN IF task # Null THEN OpenModal2(task)
          ELSE IF ~isBlocked(hour) THEN handleSlotClick2(hour, quarter)
          ELSE UNCHANGED <<editingTask, modalOpen, form>>
    /\ UNCHANGED <<allTasks, currentDate, calendarOpen, generated>>
    /\ Frame2

FormEdit2(f, v) ==
    /\ modalOpen
    /\ form' = With(form, f, v)
    /\ form' # form
    /\ UNCHANGED <<allTasks, currentDate, calendarOpen, generated, modalOpen, editingTask>>
    /\ Frame2

SetTitle2(v) == FormEdit2("title", v)

\* the browser's validation of the form: title and start time are required,
\* the duration has min="15" step="15"
FormValid2 ==
    /\ form.title # ""
    /\ form.startTime # <<>>
    /\ form.duration >= 15 /\ (form.duration - 15) % 15 = 0

SubmittedTask2(id) ==
    [id |-> id,
     title |-> form.title,
     startMin |-> parseTime24(form.startTime),
     duration |-> form.duration,
     color |-> form.color,
     isCompleted |-> Has(editingTask, "isCompleted") /\ editingTask.isCompleted]

handleSubmit2 ==
    /\ modalOpen /\ FormValid2
    /\ IF Has(editingTask, "id")
       THEN /\ setTasks(saveTaskFn(TasksOf(allTasks, currentDate),
                                   SubmittedTask2(editingTask.id)))
            /\ generated' = generated
       ELSE /\ generated < MaxIds
            /\ setTasks(saveTaskFn(TasksOf(allTasks, currentDate),
                                   SubmittedTask2(generated + 1)))
            /\ generated' = generated + 1
    /\ modalOpen' = FALSE
    /\ UNCHANGED <<currentDate, calendarOpen, editingTask, form>>
    /\ Frame2

\* a creation in the millisecond of the creation before it: Date.now() gives
\* the id it gave then
handleSubmit2SameMs ==
    /\ modalOpen /\ FormValid2
    /\ ~Has(editingTask, "id")
    /\ generated > 0
    /\ setTasks(saveTaskFn(TasksOf(allTasks, currentDate), SubmittedTask2(generated)))
    /\ generated' = generated
    /\ modalOpen' = FALSE
    /\ UNCHANGED <<currentDate, calendarOpen, editingTask, form>>
    /\ loaded
    /\ hist' = <<[op |-> "again", id |-> generated,
                  held |-> HasTask(TasksOf(allTasks, currentDate), generated)]>>
    /\ UNCHANGED <<loaded, settings, settingsOpen, settingsForm, clockDate, variant,
                   tasks, lastUndoAction, undoTimeoutRef, timers, draggedTaskId,
                   dragOverSlot, elapsed, templates, generatedT>>
    /\ storage' = IF allTasks' # allTasks
                  THEN setItem(storage, KEY_TASKS2, JSONstringify(allTasks'))
                  ELSE storage

handleDelete2 ==
    /\ modalOpen
    /\ Has(editingTask, "id")
    /\ setTasks(deleteFn(TasksOf(allTasks, currentDate), editingTask.id))
    /\ modalOpen' = FALSE
    /\ UNCHANGED <<currentDate, calendarOpen, editingTask, form, generated>>
    /\ Frame2

onClose2 ==
    /\ modalOpen
    /\ modalOpen' = FALSE
    /\ UNCHANGED <<allTasks, currentDate, calendarOpen, editingTask, form, generated>>
    /\ Frame2

\* the completion button is drawn in the slot where the task starts
ShowContent2(ts, t) ==
    \E s \in SlotsNear(t) :
        getTaskInSlot(ts, s[1], s[2]) = t /\ t.startMin = SlotStart(s[1], s[2])

toggleTaskCompletion2(id) ==
    /\ LET ts == TasksOf(allTasks, currentDate)
       IN /\ \E i \in 1..Len(ts) : ts[i].id = id /\ ShowContent2(ts, ts[i])
          /\ setTasks(toggleFn(ts, id))
    /\ UNCHANGED <<currentDate, calendarOpen, modalOpen, editingTask, form, generated>>
    /\ Frame2

\* the buttons of the date navigation
\* faulty variant: leaving a date drops its list from the mapping
SetCurrentDateDropping(date) ==
    /\ date \in SampleDates
    /\ currentDate' = date
    /\ allTasks' = [d \in DOMAIN allTasks \ {currentDate} |-> allTasks[d]]
    /\ UNCHANGED <<calendarOpen, modalOpen, editingTask, form, generated>>
    /\ Frame2

SetCurrentDate(date) ==
    /\ date \in SampleDates
    /\ currentDate' = date
    /\ UNCHANGED <<allTasks, calendarOpen, modalOpen, editingTask, form, generated>>
    /\ Frame2

PrevDay == SetCurrentDate(addDays(currentDate, -1))
NextDay == SetCurrentDate(addDays(currentDate, 1))
GoToday == SetCurrentDate(getTodayString)

\* midnight passes: the clock shows the next day.  No handler runs (the
\* interval that refreshes currentTime only redraws the time marker), and
\* the clock goes on whether the page is open or not
MidnightPasses ==
    /\ addDays(clockDate, 1) \in SampleDates
    /\ clockDate' = addDays(clockDate, 1)
    /\ UNCHANGED <<vars1, modalOpen, editingTask, form, generated, settings, currentDate,
                   allTasks, calendarOpen, settingsOpen, settingsForm, storage, loaded,
                   variant>>

\* when the calendar is open already, setCalendarOpen(true) changes nothing
OpenCalendar ==
    /\ ~calendarOpen
    /\ calendarOpen' = TRUE
    /\ UNCHANGED <<allTasks, currentDate, modalOpen, editingTask, form, generated>>
    /\ Frame2

\* CalendarPicker's selectDate
onSelectDate(date) ==
    /\ calendarOpen
    /\ currentDate' = date
    /\ calendarOpen' = FALSE
    /\ UNCHANGED <<allTasks, modalOpen, editingTask, form, generated>>
    /\ Frame2

CloseCalendar ==
    /\ calendarOpen
    /\ calendarOpen' = FALSE
    /\ UNCHANGED <<allTasks, currentDate, modalOpen, editingTask, form, generated>>
    /\ Frame2

\* variant 2, a user who makes tasks, edits, deletes and completes them, on
\* today and the days after, also pressing the buttons of the page while
\* the form is open
Next2 ==
    \/ ClickSlot2(OneSlot[1], OneSlot[2])
    \/ SetTitle2("A")
    \/ handleSubmit2
    \/ handleDelete2
    \/ onClose2
    \/ \E id \in 1..MaxIds : toggleTaskCompletion2(id)
    \/ NextDay
    \/ GoToday
    \/ MidnightPasses

Spec2 == Init2 /\ [][Next2]_vars

\* variant 2, a user who makes tasks and goes from date to date, by the
\* buttons and by the calendar
NextNav2 ==
    \/ ClickSlot2(OneSlot[1], OneSlot[2])
    \/ SetTitle2("A")
    \/ handleSubmit2
    \/ onClose2
    \/ PrevDay
    \/ NextDay
    \/ GoToday
    \/ OpenCalendar
    \/ \E d \in SampleDates : onSelectDate(d)
    \/ CloseCalendar
    \/ MidnightPasses

Spec2Nav == Init2 /\ [][NextNav2]_vars

\* grid slots of a user whose creations fall into one millisecond
IdSlots == {<<9, 0>>, <<9, 1>>, <<9, 2>>}

\* either variant, a user who changes the task list in every way the variant
\* has: in variant 1 makes, edits, deletes, completes, moves tasks and takes
\* moves back; in variant 2 makes, edits, deletes and completes tasks, with
\* creations that may fall into one millisecond, and goes on to the next day
NextIds ==
    \/ /\ variant = 1
       /\ \/ ClickSlot(OneSlot[1], OneSlot[2])
          \/ handleSubmit
          \/ handleDelete
          \/ onClose
          \/ \E id \in 1..MaxIds : toggleTaskCompletion(id)
          \/ \E id \in 1..MaxIds : handleDragStart(id)
          \/ \E s \in DragSlots : handleDrop(s[1], s[2])
          \/ performUndo
    \/ /\ variant = 2
       /\ \/ \E s \in IdSlots : ClickSlot2(s[1], s[2])
          \/ SetTitle2("A")
          \/ handleSubmit2
          \/ handleSubmit2SameMs
          \/ handleDelete2
          \/ onClose2
          \/ \E id \in 1..MaxIds : toggleTaskCompletion2(id)
          \/ NextDay

SpecIds == (Init \/ Init2) /\ [][NextIds]_vars

\* grid slots of a user who changes the settings: an hour before every
\* wakeTime, an hour that wakeTime 10 blocks, an hour that bedTime 22 blocks
SettingsSlots == {<<0, 0>>, <<9, 0>>, <<22, 0>>}

\* either variant, a user who makes tasks and changes the settings
NextSet ==
    \/ /\ variant = 1
       /\ \/ \E s \in SettingsSlots : ClickSlot(s[1], s[2])
          \/ handleSubmit
          \/ handleDelete
          \/ onClose
    \/ /\ variant = 2
       /\ \/ \E s \in SettingsSlots : ClickSlot2(s[1], s[2])
          \/ SetTitle2("A")
          \/ handleSubmit2
          \/ handleDelete2
          \/ onClose2
    \/ OpenSettings
    \/ \E v \in SampleWake : SetWake(v)
    \/ \E v \in SampleBed : SetBed(v)
    \/ SaveSettings
    \/ CloseSettings

SpecSet == (Init \/ Init2) /\ [][NextSet]_vars

(* ------------------------- variant 2: startup ------------------------- *)
StoredTask2 == [id |-> 2, title |-> "B", startMin |-> 555, duration |-> 15,
                color |-> DEFAULT_COLOR2, isCompleted |-> TRUE]
StoredAllTasks == [d \in {addDays(Today, 1)} |-> <<StoredTask2>>]
\* a task that variant 1 saved with the time input cleared: its NaN was
\* stored as null
StoredTaskNoStart == With(StoredTask, "startMin", NullNum)

\* what the page may find in localStorage when it is opened
SampleStorage2 ==
    {MakeStorage({<<KEY_TASKS2, t>>, <<KEY_LEGACY_TASKS, l>>, <<KEY_SETTINGS, se>>}) :
        t \in {Null, EmptyText, BadText, JSONstringify(StoredAllTasks)},
        l \in {Null, BadText, JSONstringify(<<StoredTask>>),
               JSONstringify(<<StoredTaskNoStart>>)},
        se \in {Null, BadText}}

\* the largest id among the tasks of all dates
MaxId2(all) ==
    LET ids == UNION {{all[d][i].id : i \in 1..Len(all[d])} : d \in DOMAIN all}
    IN IF ids = {} THEN 0 ELSE CHOOSE n \in ids : \A m \in ids : m <= n

\* the page is not open yet
InitOff2 ==
    /\ tasks = <<>>
    /\ lastUndoAction = Null
    /\ undoTimeoutRef = 0
    /\ timers = {}
    /\ draggedTaskId = 0
    /\ dragOverSlot = Null
    /\ modalOpen = FALSE
    /\ editingTask = Null
    /\ form = [title |-> "", startTime |-> <<>>, duration |-> 30, color |-> DEFAULT_COLOR2]
    /\ generated = 0
    /\ settings = DefaultSettings
    /\ hist = <<>>
    /\ elapsed = 0
    /\ currentDate = Today
    /\ clockDate = Today
    /\ allTasks = <<>>
    /\ calendarOpen = FALSE
    /\ settingsOpen = FALSE
    /\ settingsForm = [wake |-> DefaultSettings.wakeTime, bed |-> DefaultSettings.bedTime]
    /\ templates = <<>>
    /\ generatedT = 0
    /\ storage \in SampleStorage2
    /\ loaded = FALSE
    /\ variant = 2

\* the page is opened: App is mounted, its state is initialized from the
\* storage and the effects write it back.  The mount reads the clock twice,
\* for currentDate and then in the migration of the older version's list:
\* midnight may pass between the two readings
Load2 ==
    /\ ~loaded
    /\ loaded' = TRUE
    /\ currentDate' = getTodayString
    /\ \E turns \in BOOLEAN :
          /\ turns => addDays(clockDate, 1) \in SampleDates
          /\ clockDate' = IF turns THEN addDays(clockDate, 1) ELSE clockDate
    /\ allTasks' = LoadAllTasks(storage, clockDate')
    /\ settings' = LoadSettings(storage)
    /\ settingsForm' = [wake |-> settings'.wakeTime, bed |-> settings'.bedTime]
    /\ generated' = MaxId2(allTasks')
    /\ storage' = Persist2(storage, allTasks', settings')
    /\ hist' = <<[op |-> "load", found |-> storage]>>
    /\ UNCHANGED <<tasks, lastUndoAction, undoTimeoutRef, timers, draggedTaskId, dragOverSlot, elapsed,
                   templates, generatedT, modalOpen, editingTask, form, calendarOpen,
                   settingsOpen, variant>>

\* variant 2, a user who opens the page on what an earlier visit or an older
\* version stored, makes and deletes tasks and changes the date
NextBoot2 ==
    \/ Load2
    \/ \E s \in SampleSlots : ClickSlot2(s[1], s[2])
    \/ SetTitle2("A")
    \/ handleSubmit2
    \/ handleDelete2
    \/ onClose2
    \/ NextDay
    \/ MidnightPasses

Spec2Boot == InitOff2 /\ [][NextBoot2]_vars

(* ============================== claims ================================ *)
\* the start of the task with this id
StartOf(ts, id) == ts[CHOOSE i \in 1..Len(ts) : ts[i].id = id].startMin

(* C1.  For every hour in 0..23 and quarter in 0..3, getTaskInSlot returns  *)
(* a task if and only if some task t of the list has                        *)
(* t.startMin < hour*60+quarter*15+15 and                                   *)
(* t.startMin+t.duration > hour*60+quarter*15; the task it returns is a     *)
(* task of the list that meets the slot in this way.                        *)
C1_SlotLookup ==
    \A hour \in 0..23, quarter \in 0..3 :
        LET lo == hour * 60 + quarter * 15
            Meets(t) == t.startMin < lo + 15 /\ t.startMin + t.duration > lo
            r == getTaskInSlot(tasks, hour, quarter)
        IN /\ (r # Null) <=> \E i \in 1..Len(tasks) : Meets(tasks[i])
           /\ r # Null => (\E i \in 1..Len(tasks) : tasks[i] = r) /\ Meets(r)

\* two tasks, one of which ends exactly where a slot starts in which no task is
C1_Witness ==
    /\ Len(tasks) = 2
    /\ \E i \in 1..2, hour \in 0..23, quarter \in 0..3 :
          /\ tasks[i].startMin + tasks[i].duration = hour * 60 + quarter * 15
          /\ getTaskInSlot(tasks, hour, quarter) = Null
          /\ quarter > 0 /\ getTaskInSlot(tasks, hour, quarter - 1) = tasks[i]

(* C2.  In every state reachable from an empty schedule no two distinct     *)
(* tasks of the day have overlapping intervals [startMin, startMin+duration).*)
C2_NoOverlap ==
    \A i, j \in 1..Len(tasks) :
        i # j => ~(/\ tasks[i].startMin < tasks[j].startMin + tasks[j].duration
                   /\ tasks[j].startMin < tasks[i].startMin + tasks[i].duration)

(* C3.  After a drop that moved a task from s to another start, followed by *)
(* performUndo while the record is pending and with no other operation in   *)
(* between, the task starts at s again and lastUndoAction is null.          *)
C3_UndoRestores ==
    \A k \in 2..Len(hist) :
        (hist[k].op = "undo" /\ hist[k].rec # Null /\ hist[k - 1].op = "move")
        => /\ HasTask(tasks, hist[k - 1].id)
           /\ StartOf(tasks, hist[k - 1].id) = hist[k - 1].from
           /\ lastUndoAction = Null

\* a task was moved to another start and performUndo has acted on the record
C3_Witness ==
    /\ Len(hist) = 2
    /\ hist[1].op = "move" /\ hist[1].from # hist[1].to
    /\ hist[2].op = "undo" /\ hist[2].rec # Null

(* C4.  A drop of the dragged task on a slot whose start differs from the   *)
(* task's startMin sets the task's startMin to the slot start, arms the     *)
(* undo record with the task's id and its startMin before the drop, and     *)
(* leaves the task's other fields, every other task and the number of tasks *)
(* unchanged.                                                                *)
C4_DropMoves ==
    [][\A s \in DragSlots, i \in 1..Len(tasks) :
          (/\ handleDrop(s[1], s[2])
           /\ draggedTaskId # 0 /\ tasks[i].id = draggedTaskId
           /\ tasks[i].startMin # s[1] * 60 + s[2] * 15)
          => /\ Len(tasks') = Len(tasks)
             /\ \A j \in 1..Len(tasks) :
                   IF j = i
                   THEN tasks'[j] = [tasks[i] EXCEPT !.startMin = s[1] * 60 + s[2] * 15]
                   ELSE tasks'[j] = tasks[j]
             /\ lastUndoAction' = [taskId |-> draggedTaskId,
                                   prevStartMin |-> tasks[i].startMin]]_vars

\* a drop has just moved one of two tasks
C4_Witness ==
    /\ LastOp = "move"
    /\ Len(tasks) = 2
    /\ StartOf(tasks, hist[Len(hist)].id) = hist[Len(hist)].to
    /\ hist[Len(hist)].from # hist[Len(hist)].to

(* C5.  A drop of a task on the slot whose start equals the task's startMin *)
(* changes nothing: the task list, the pending undo record and its timer    *)
(* are as before (a second identical move does not re-arm or replace the    *)
(* record of the first).                                                     *)
C5_SameSlotDrop ==
    [][\A s \in DragSlots, i \in 1..Len(tasks) :
          (/\ handleDrop(s[1], s[2])
           /\ draggedTaskId # 0 /\ tasks[i].id = draggedTaskId
           /\ tasks[i].startMin = s[1] * 60 + s[2] * 15)
          => UNCHANGED <<tasks, lastUndoAction, timers, undoTimeoutRef>>]_vars

\* a task was moved to a slot and then dropped on that slot again, the record
\* of the move still pending
C5_Witness ==
    /\ Len(hist) = 2
    /\ hist[1].op = "move" /\ hist[2].op = "same"
    /\ hist[2].id = hist[1].id /\ hist[2].at = hist[1].to
    /\ lastUndoAction = [taskId |-> hist[1].id, prevStartMin |-> hist[1].from]
    /\ \E t \in timers : t.rem < 5000

(* C6.  The undo record does not stay pending for more than 5 seconds: when *)
(* 5 seconds have passed after a move without an undo or a newer move, the  *)
(* timer's callback sets it to null, and a performUndo after that leaves    *)
(* the task list as it is (the moved task keeps its new startMin).          *)
C6_Expiry ==
    /\ lastUndoAction # Null => elapsed <= 5000
    /\ (lastUndoAction # Null /\ elapsed = 5000) => \E t \in timers : t.rem = 0
    /\ \A k \in 2..Len(hist) :
          (hist[k].op = "expire" /\ hist[k - 1].op = "move") => hist[k].at = 5000
    /\ LastOp = "expire" => lastUndoAction = Null
    /\ (Len(hist) = 3 /\ hist[1].op = "move" /\ hist[2].op = "expire"
        /\ hist[3].op = "undo")
       => /\ tasks = hist[3].before
          /\ StartOf(tasks, hist[1].id) = hist[1].to
          /\ lastUndoAction = Null

\* a move, then the expiry of its record, then performUndo
C6_Witness ==
    /\ Len(hist) = 3
    /\ hist[1].op = "move" /\ hist[2].op = "expire" /\ hist[3].op = "undo"
    /\ hist[1].from # hist[1].to

(* C7.  Only the most recent move can be undone: after two moves in a row   *)
(* (of one task or of two) the pending record names the second move's task  *)
(* and its startMin just before the second move, and performUndo takes back *)
(* the second move only; what the first move did stays.                     *)
C7_LatestMoveOnly ==
    /\ (Len(hist) = 2 /\ hist[1].op = "move" /\ hist[2].op = "move")
       => lastUndoAction = [taskId |-> hist[2].id, prevStartMin |-> hist[2].from]
    /\ (Len(hist) = 3 /\ hist[1].op = "move" /\ hist[2].op = "move"
        /\ hist[3].op = "undo")
       => /\ StartOf(tasks, hist[2].id) = hist[2].from
          /\ StartOf(tasks, hist[1].id) = hist[1].to
          /\ \A i \in 1..Len(tasks) :
                tasks[i].id # hist[2].id => tasks[i] = hist[3].before[i]
          /\ lastUndoAction = Null

\* two tasks were moved one after the other, then performUndo
C7_Witness ==
    /\ Len(hist) = 3
    /\ hist[1].op = "move" /\ hist[2].op = "move" /\ hist[3].op = "undo"
    /\ hist[1].id # hist[2].id
    /\ hist[1].from # hist[1].to /\ hist[2].from # hist[2].to

(* C8.  saveTask with a task whose id matches no entry of the list leaves   *)
(* the list unchanged (same length, same entries).                          *)
SubmitId == IF Has(editingTask, "id") THEN editingTask.id ELSE generated + 1
C8_UnknownIdNoOp ==
    [][(handleSubmit /\ ~HasTask(tasks, SubmitId)) => tasks' = tasks]_vars

(* C8, amended.  saveTask with a task whose id matches no entry of the list *)
(* appends the task: the list is one longer, its earlier entries are as     *)
(* before and the new last entry is the task.                                *)
C8_UnknownIdAppends ==
    [][(handleSubmit /\ ~HasTask(tasks, SubmitId))
       => /\ Len(tasks') = Len(tasks) + 1
          /\ \A i \in 1..Len(tasks) : tasks'[i] = tasks[i]
          /\ tasks'[Len(tasks')] = SubmittedTask(SubmitId)]_vars

\* two tasks were saved under ids the list did not have
C8_Witness ==
    /\ Len(tasks) = 2
    /\ generated = 2
    /\ tasks[1].id = 1 /\ tasks[2].id = 2

(* C9.  Variant 2: a change of the active date (previous day, next day,     *)
(* today, a pick in the calendar) leaves the whole mapping from dates to    *)
(* task lists as it is; the list shown after the change is the one the      *)
(* mapping held for the new date before it, each task with all its fields,  *)
(* and when the mapping holds no task for the new date getTaskInSlot        *)
(* returns none for every slot.                                             *)
C9_DateChangeFrame ==
    [][currentDate' # currentDate
       => /\ allTasks' = allTasks
          /\ TasksOf(allTasks', currentDate') = TasksOf(allTasks, currentDate')
          /\ TasksOf(allTasks, currentDate') = <<>>
             => \A s \in AllSlots :
                   getTaskInSlot(TasksOf(allTasks', currentDate'), s[1], s[2]) = Null]_vars

\* a task was made on one date, and the active date is another one for which
\* there is no task: every slot is empty, the task is still kept under its date
C9_Witness ==
    /\ currentDate # Today
    /\ TasksOf(allTasks, Today) # <<>>
    /\ TasksOf(allTasks, currentDate) = <<>>
    /\ \A s \in AllSlots : getTaskInSlot(TasksOf(allTasks, currentDate), s[1], s[2]) = Null
    /\ \E s \in AllSlots : getTaskInSlot(TasksOf(allTasks, Today), s[1], s[2]) # Null

(* C10.  Variant 2: a save, a delete and a toggle of completion change only *)
(* the task list kept under the date that is active when the operation is   *)
(* invoked; the lists of all other dates of the mapping are unchanged, and  *)
(* no other date comes into the mapping.                                    *)
C10_ActiveDateOnly ==
    [][(handleSubmit2 \/ handleDelete2 \/ \E id \in 1..MaxIds : toggleTaskCompletion2(id))
       => /\ \A d \in DOMAIN allTasks :
                d # currentDate => d \in DOMAIN allTasks' /\ allTasks'[d] = allTasks[d]
          /\ DOMAIN allTasks' \subseteq DOMAIN allTasks \cup {currentDate}
          /\ currentDate' = currentDate]_vars

\* two dates have tasks, and the list of the active date was made after the
\* other one
C10_Witness ==
    /\ \E d \in DOMAIN allTasks :
          /\ d # currentDate
          /\ allTasks[d] # <<>>
          /\ TasksOf(allTasks, currentDate) # <<>>
          /\ \A i \in 1..Len(allTasks[d]), j \in 1..Len(allTasks[currentDate]) :
                allTasks[d][i].id < allTasks[currentDate][j].id

(* C11.  After every mutation of the task list (create, edit, move, undo,   *)
(* delete, toggle) the value stored under the tasks key is the              *)
(* serialization of the task list in memory: the stored value is never      *)
(* older than the latest mutation, and a read of the key gives the list.    *)
C11_StoredIsCurrent ==
    loaded => /\ getItem(storage, KEY_TASKS) = JSONstringify(tasks)
              /\ LoadTasks(storage) = tasks

\* a list of two tasks that were made, moved and toggled, with a move undone
C11_Witness ==
    /\ Len(tasks) = 2
    /\ \E i \in 1..2 : tasks[i].isCompleted
    /\ Len(hist) = 2 /\ hist[1].op = "move" /\ hist[2].op = "undo"
    /\ getItem(storage, KEY_TASKS) = JSONstringify(tasks)

(* C12.  Variant 2 at startup: when the date-keyed tasks key holds nothing  *)
(* (it is not set, or set to the empty text) and the legacy key holds a     *)
(* task list, the mapping starts as exactly {today: that list}, today the   *)
(* day the clock shows when the list is taken over; when the date-keyed key *)
(* holds a value the legacy key is ignored (the mapping is what the         *)
(* date-keyed value gives); and no step of a run writes or deletes the      *)
(* legacy key.                                                              *)
C12_Migration ==
    [][/\ Load2 =>
            LET saved == IF KEY_TASKS2 \in DOMAIN storage THEN storage[KEY_TASKS2] ELSE Null
                legacy == IF KEY_LEGACY_TASKS \in DOMAIN storage
                          THEN storage[KEY_LEGACY_TASKS] ELSE Null
                nothing == saved = Null \/ saved = [text |-> ""]
            IN /\ (nothing /\ "json" \in DOMAIN legacy)
                  => /\ allTasks' = [d \in {clockDate'} |-> legacy.json]
                     /\ clockDate' \in {clockDate, addDays(clockDate, 1)}
               /\ (~nothing /\ "json" \in DOMAIN saved) => allTasks' = saved.json
               /\ (~nothing /\ "json" \notin DOMAIN saved) => allTasks' = <<>>
       /\ (KEY_LEGACY_TASKS \in DOMAIN storage') = (KEY_LEGACY_TASKS \in DOMAIN storage)
       /\ KEY_LEGACY_TASKS \in DOMAIN storage
          => storage'[KEY_LEGACY_TASKS] = storage[KEY_LEGACY_TASKS]]_vars

\* the list of the older version was taken over as today's, its task was given
\* another title and stored under the date-keyed key, the legacy key is as it
\* was
C12_Witness ==
    /\ loaded
    /\ DOMAIN allTasks = {Today}
    /\ allTasks[Today] = <<[StoredTask EXCEPT !.title = "A"]>>
    /\ getItem(storage, KEY_LEGACY_TASKS) = JSONstringify(<<StoredTask>>)
    /\ getItem(storage, KEY_TASKS2) = JSONstringify(allTasks)

(* C13.  At startup, when the stored tasks cannot be parsed the schedule    *)
(* starts empty, and when the stored settings cannot be parsed the settings *)
(* start as {wakeTime: 7, bedTime: 23}; in both cases the page opens (the   *)
(* startup does not fail) and writes the values it started with back.       *)
C13_ParseFallback ==
    [][Load =>
        LET t == IF KEY_TASKS \in DOMAIN storage THEN storage[KEY_TASKS] ELSE Null
            se == IF KEY_SETTINGS \in DOMAIN storage THEN storage[KEY_SETTINGS] ELSE Null
            Unparseable(b) == "text" \in DOMAIN b
        IN /\ loaded'
           /\ Unparseable(t) => tasks' = <<>> /\ storage'[KEY_TASKS] = [json |-> <<>>]
           /\ Unparseable(se)
              => /\ settings' = [wakeTime |-> 7, bedTime |-> 23]
                 /\ storage'[KEY_SETTINGS] = [json |-> [wakeTime |-> 7, bedTime |-> 23]]
           /\ "json" \in DOMAIN t => tasks' = t.json
           /\ "json" \in DOMAIN se => settings' = se.json]_vars

\* the page was opened on tasks and settings that cannot be parsed
C13_Witness ==
    /\ loaded
    /\ hist = <<[op |-> "load",
                 found |-> MakeStorage({<<KEY_TASKS, BadText>>, <<KEY_SETTINGS, BadText>>})]>>
    /\ tasks = <<>>
    /\ settings = DefaultSettings

(* C14.  In every state reachable from an empty schedule by the user's      *)
(* operations (the '+' button at any time of the day and a save among       *)
(* them) every task has 0 <= startMin < 1440.                               *)
C14_StartMinRange ==
    \A i \in 1..Len(tasks) : 0 <= tasks[i].startMin /\ tasks[i].startMin < 1440

(* C15.  deleteTask(id) removes exactly the entries whose id is id and      *)
(* leaves all other entries and their order unchanged; when no entry has    *)
(* the id the task list is unchanged.                                       *)
C15_DeleteExact ==
    [][/\ \A id \in 1..(MaxIds + 1) :
             LET keep == {i \in 1..Len(tasks) : tasks[i].id # id}
                 rank(i) == Cardinality({k \in keep : k <= i})
                 r == deleteFn(tasks, id)
             IN /\ Len(r) = Cardinality(keep)
                /\ \A i \in keep : r[rank(i)] = tasks[i]
                /\ keep = 1..Len(tasks) => r = tasks
       /\ (handleDelete /\ "id" \in DOMAIN editingTask)
          => /\ \A i \in 1..Len(tasks') : tasks'[i].id # editingTask.id
             /\ \A i \in 1..Len(tasks) :
                   tasks[i].id # editingTask.id
                   => \E j \in 1..Len(tasks') : tasks'[j] = tasks[i]
             /\ Len(tasks') = Cardinality({i \in 1..Len(tasks) :
                                             tasks[i].id # editingTask.id})]_vars

\* the first of two tasks was deleted, the second is what the list holds
C15_Witness ==
    /\ generated = 2
    /\ Len(tasks) = 1
    /\ tasks[1].id = 2
    /\ ~modalOpen

(* C16.  toggleTaskCompletion(id) negates isCompleted of the task with the  *)
(* id and changes no other field and no other task; when no task has the id *)
(* the list is unchanged; toggling the same task twice gives back its       *)
(* completion value (and the list) as it was.                               *)
C16_ToggleInvolution ==
    [][/\ \A id \in 1..(MaxIds + 1) :
             LET r == toggleFn(tasks, id)
             IN /\ Len(r) = Len(tasks)
                /\ \A i \in 1..Len(tasks) :
                      r[i] = IF tasks[i].id = id
                             THEN [tasks[i] EXCEPT !.isCompleted = ~tasks[i].isCompleted]
                             ELSE tasks[i]
                /\ (\A i \in 1..Len(tasks) : tasks[i].id # id) => r = tasks
                /\ toggleFn(r, id) = tasks
       /\ \A id \in 1..MaxIds :
             toggleTaskCompletion(id)
             => /\ Len(tasks') = Len(tasks)
                /\ \A i \in 1..Len(tasks) :
                      tasks'[i] = IF tasks[i].id = id
                                  THEN [tasks[i] EXCEPT !.isCompleted = ~tasks[i].isCompleted]
                                  ELSE tasks[i]]_vars

\* of two tasks the second is completed, the first is not
C16_Witness ==
    /\ Len(tasks) = 2
    /\ ~tasks[1].isCompleted
    /\ tasks[2].isCompleted
    /\ ~modalOpen

(* C17.  saveTask(task) with an id that an entry of the list has replaces   *)
(* that entry by the task at the same position; the length of the list and  *)
(* all other entries are unchanged.  The task is the one the form submits:   *)
(* the id and the completion of the task the editor was opened on, the       *)
(* other fields from the form.                                               *)
C17_ReplaceInPlace ==
    [][(handleSubmit /\ HasTask(tasks, SubmitId))
       => /\ Len(tasks') = Len(tasks)
          /\ \A i \in 1..Len(tasks) :
                tasks'[i] = IF tasks[i].id = SubmitId
                            THEN [id |-> SubmitId,
                                  title |-> IF form.title = "" THEN DEFAULT_TITLE
                                            ELSE form.title,
                                  startMin |-> form.startTimeStr[1] * 60 + form.startTimeStr[2],
                                  duration |-> form.duration,
                                  color |-> form.color,
                                  isCompleted |-> editingTask.isCompleted]
                            ELSE tasks[i]]_vars

\* the first of two tasks was opened, changed in the form and saved
C17_Witness ==
    /\ ~modalOpen
    /\ Len(tasks) = 2
    /\ "id" \in DOMAIN editingTask
    /\ tasks[1].id = editingTask.id
    /\ tasks[1] # editingTask
    /\ tasks[1].startMin = form.startTimeStr[1] * 60 + form.startTimeStr[2]
    /\ tasks[1].duration = form.duration

(* C18.  wakeTime and bedTime only affect shading: saving settings never    *)
(* changes the task collection, and whatever the settings are a click on an *)
(* empty slot opens the creation of a task, also when the slot's hour is    *)
(* before wakeTime or at or after bedTime.                                  *)
C18_SettingsOnlyShade ==
    \A s \in SettingsSlots :
        /\ (/\ variant = 1 /\ loaded /\ ~modalOpen /\ ~settingsOpen
            /\ getTaskInSlot(tasks, s[1], s[2]) = Null)
           => ENABLED (/\ ClickSlot(s[1], s[2])
                       /\ modalOpen'
                       /\ editingTask' = [startMin |-> s[1] * 60 + s[2] * 15,
                                          duration |-> 30, color |-> DEFAULT_COLOR,
                                          isCompleted |-> FALSE])
        /\ (/\ variant = 2 /\ loaded /\ ~modalOpen /\ ~calendarOpen /\ ~settingsOpen
            /\ getTaskInSlot(TasksOf(allTasks, currentDate), s[1], s[2]) = Null)
           => ENABLED (/\ ClickSlot2(s[1], s[2])
                       /\ modalOpen'
                       /\ editingTask' = [startMin |-> s[1] * 60 + s[2] * 15,
                                          duration |-> 30, color |-> DEFAULT_COLOR2])

(* C18, amended.  In both variants saving settings never changes the task   *)
(* collection, the click handler of a slot never changes it, and on a slot  *)
(* a task covers the handler opens that task whatever the settings are.  On *)
(* an empty slot the handler of variant 1 opens the creation of a task      *)
(* whatever the settings are; the handler of variant 2 opens it only when   *)
(* wakeTime <= hour < bedTime, and does nothing when the hour is before     *)
(* wakeTime or at or after bedTime.                                         *)
C18_BlockedHoursGuardCreation ==
    [][/\ SaveSettings
          => /\ allTasks' = allTasks /\ tasks' = tasks
             /\ settings' = [wakeTime |-> settingsForm.wake, bedTime |-> settingsForm.bed]
       /\ \A s \in SettingsSlots :
             (variant = 1 /\ ClickSlot(s[1], s[2]))
             => LET task == getTaskInSlot(tasks, s[1], s[2])
                IN /\ tasks' = tasks
                   /\ modalOpen'
                   /\ editingTask' = IF task # Null THEN task
                                     ELSE [startMin |-> s[1] * 60 + s[2] * 15,
                                           duration |-> 30, color |-> DEFAULT_COLOR,
                                           isCompleted |-> FALSE]
       /\ \A s \in SettingsSlots :
             (variant = 2 /\ ClickSlot2(s[1], s[2]))
             => LET task == getTaskInSlot(TasksOf(allTasks, currentDate), s[1], s[2])
                IN /\ allTasks' = allTasks
                   /\ IF task # Null
                      THEN modalOpen' /\ editingTask' = task
                      ELSE IF settings.wakeTime <= s[1] /\ s[1] < settings.bedTime
                      THEN /\ modalOpen'
                           /\ editingTask' = [startMin |-> s[1] * 60 + s[2] * 15,
                                              duration |-> 30, color |-> DEFAULT_COLOR2]
                      ELSE UNCHANGED <<modalOpen, editingTask, form>>]_vars

\* variant 2: a task was made at 22:00, then the settings were saved with
\* bedTime 22; a click on its slot, now in a blocked hour, has opened it
C18_Witness ==
    /\ variant = 2
    /\ settings.bedTime = 22
    /\ modalOpen
    /\ "id" \in DOMAIN editingTask
    /\ editingTask.startMin = 1320
    /\ TasksOf(allTasks, currentDate) = <<editingTask>>
    /\ getItem(storage, KEY_SETTINGS) = JSONstringify(settings)

(* C19.  A drag that starts and is let go without a drop on any slot runs   *)
(* handleDragStart, then handleDragOver and handleDragLeave any number of   *)
(* times, and nothing else: each of these leaves the task list and the      *)
(* pending undo record (with its timer) unchanged, and so what is stored.   *)
C19_DragWithoutDrop ==
    [][(\/ \E id \in 1..MaxIds : handleDragStart(id)
        \/ \E s \in DragSlots : handleDragOver(s[1], s[2])
        \/ handleDragLeave)
       => UNCHANGED <<tasks, lastUndoAction, undoTimeoutRef, timers, storage>>]_vars

\* a drag of the task whose move can still be taken back has started and is
\* over a slot, nothing dropped yet
C19_Witness ==
    /\ lastUndoAction # Null
    /\ draggedTaskId = lastUndoAction.taskId
    /\ dragOverSlot # Null
    /\ Len(tasks) = 2

\* the undo slot holds a record
Armed == lastUndoAction # Null
\* a drop that moves a task: the only step that arms the undo slot
Rearm ==
    /\ \E s \in DragSlots : handleDrop(s[1], s[2])
    /\ tasks' # tasks

\* what a step that changes an armed slot does: it empties the slot, or it is
\* a drop that moves a task and puts in the record of that move (the dragged
\* task, its startMin before the drop) with a timer of the full UNDO_MS
ArmedLeft ==
    (Armed /\ lastUndoAction' # lastUndoAction)
    => \/ lastUndoAction' = Null
       \/ /\ Rearm
          /\ lastUndoAction'.taskId = draggedTaskId
          /\ lastUndoAction'.prevStartMin = StartOf(tasks, draggedTaskId)
          /\ StartOf(tasks', draggedTaskId) # lastUndoAction'.prevStartMin
          /\ [h |-> undoTimeoutRef', rem |-> UNDO_MS] \in timers'

(* C20.  With time going on and due timers firing, an armed undo slot is    *)
(* always followed by an empty one, whatever the user does or does not do,  *)
(* and an armed slot is only left towards the empty slot or towards an      *)
(* armed slot with a newer record.                                          *)
C20_ArmedAlwaysEmpties ==
    /\ Armed ~> ~Armed
    /\ [][ArmedLeft]_vars

(* C20, amended.  With time going on and due timers firing, an armed undo   *)
(* slot is followed by an empty one unless the user moves tasks again and   *)
(* again for ever, each move putting a newer record in; in particular it    *)
(* gets empty when the user does nothing more.  An armed slot is only left  *)
(* towards the empty slot or towards an armed slot with a newer record.     *)
C20_ArmedLeadsToEmpty ==
    /\ ([]<><<Rearm>>_vars) \/ (Armed ~> ~Armed)
    /\ [][ArmedLeft]_vars

\* a move was left alone for the whole UNDO_MS and its record is gone
C20_Witness ==
    /\ Len(hist) = 2
    /\ hist[1].op = "move" /\ hist[1].from # hist[1].to
    /\ hist[2].op = "expire" /\ hist[2].at = UNDO_MS
    /\ ~Armed /\ timers = {}

\* the tasks of a list, as a set
TaskSet(ts) == {ts[i] : i \in 1..Len(ts)}

(* C21.  A restart of the page gives back the task collection as it was     *)
(* just before (as a set of tasks), and leaves the undo slot empty with no  *)
(* timer pending, also when a move had been made just before.               *)
C21_RestartRoundTrip ==
    [][Restart => /\ TaskSet(tasks') = TaskSet(tasks)
                  /\ lastUndoAction' = Null
                  /\ timers' = {}]_vars

\* the undo half alone: after a restart the slot is empty and no timer runs
C21_UndoNotPersisted ==
    [][Restart => lastUndoAction' = Null /\ timers' = {}]_vars

\* a restart found a pending record and a task list without NaN, and gave
\* the list back
C21_Witness ==
    /\ LastOp = "restart"
    /\ hist[1].armed
    /\ hist[1].before # <<>>
    /\ tasks = hist[1].before
    /\ lastUndoAction = Null

(* C22.  Every effective move resets the expiry timer: while a record is   *)
(* pending exactly one timer runs, the one the latest move started, and it  *)
(* is due UNDO_MS after that move; no timer of an earlier move is left to   *)
(* clear a later record.  So the record of a second move made less than     *)
(* UNDO_MS after a first one is cleared by its timer UNDO_MS after the      *)
(* second move, not before.                                                 *)
C22_TimerReset ==
    /\ Cardinality(timers) <= 1
    /\ Armed => timers = {[h |-> undoTimeoutRef, rem |-> UNDO_MS - elapsed]}
    /\ (Len(hist) = 2 /\ hist[1].op = "move" /\ hist[2].op = "expire")
       => hist[2].at = UNDO_MS

\* a second move was made TickMs after a first one, and TickMs later, when
\* the first move's timer would have been due, its record is still pending
C22_Witness ==
    /\ Len(hist) = 2
    /\ hist[1].op = "move" /\ hist[2].op = "move"
    /\ hist[2].after = TickMs
    /\ elapsed = TickMs
    /\ Armed /\ lastUndoAction.prevStartMin = hist[2].from

(* C23.  In every state reachable from the empty schedule, for every slot  *)
(* (hour, quarter) at most one task of the list intersects the slot's       *)
(* quarter of an hour, so that getTaskInSlot has one candidate at most.     *)
C23_OneTaskPerSlot ==
    \A s \in AllSlots :
        Cardinality({i \in 1..Len(tasks) : Intersects(tasks[i], s[1], s[2])}) <= 1

(* C24.  A click on a slot in which getTaskInSlot finds a task opens the   *)
(* editor on that task and never a creation; a click on a slot opens a      *)
(* creation only when no task is in the slot.  Saving from the editor       *)
(* leaves the number of tasks as it is: of the list shown, and in variant 2 *)
(* of every date's list.                                                    *)
C24_OccupiedSlotEdits ==
    [][/\ \A s \in AllSlots :
             (variant = 1 /\ ClickSlot(s[1], s[2]))
             => LET task == getTaskInSlot(tasks, s[1], s[2])
                IN /\ modalOpen'
                   /\ task # Null => editingTask' = task /\ Has(editingTask', "id")
                   /\ ~Has(editingTask', "id") => task = Null
       /\ (variant = 1 /\ handleSubmit /\ Has(editingTask, "id"))
          => Len(tasks') = Len(tasks)
       /\ \A s \in AllSlots :
             (variant = 2 /\ ClickSlot2(s[1], s[2]))
             => LET task == getTaskInSlot(TasksOf(allTasks, currentDate), s[1], s[2])
                IN /\ task # Null
                      => modalOpen' /\ editingTask' = task /\ Has(editingTask', "id")
                   /\ (modalOpen' /\ ~Has(editingTask', "id")) => task = Null
       /\ (variant = 2 /\ handleSubmit2 /\ Has(editingTask, "id"))
          => \A d \in DOMAIN allTasks' : Len(allTasks'[d]) = Len(TasksOf(allTasks, d))]_vars

\* no two entries of the list have the same id
UniqueIds(ts) == \A i, j \in 1..Len(ts) : ts[i].id = ts[j].id => i = j

(* C25.  No two tasks of one day's list have the same id, in every state    *)
(* reachable from the empty schedule by saves, moves, undos, deletes and    *)
(* toggles (variant 1: the list; variant 2: the list of every date), also   *)
(* when a creation is given the id of the creation before it: saveTask then *)
(* replaces the entry that has the id in the active day's list instead of   *)
(* appending a second one.                                                  *)
C25_UniqueIds ==
    [][/\ variant = 1 => UniqueIds(tasks) /\ UniqueIds(tasks')
       /\ variant = 2 => \A d \in DOMAIN allTasks' : UniqueIds(allTasks'[d])
       /\ (/\ variant = 2
           /\ handleSubmit2SameMs
           /\ HasTask(TasksOf(allTasks, currentDate), generated))
          => LET ts == TasksOf(allTasks, currentDate)
                 after == TasksOf(allTasks', currentDate)
             IN /\ Len(after) = Len(ts)
                /\ \A i \in 1..Len(ts) :
                      after[i] = IF ts[i].id = generated
                                 THEN SubmittedTask2(generated) ELSE ts[i]]_vars

\* variant 2: a creation got the id of the creation before it on a day
\* whose list held that task and one more; the list still has two tasks,
\* with different ids
C25_Witness ==
    /\ variant = 2
    /\ LastOp = "again" /\ hist[1].held
    /\ LET ts == TasksOf(allTasks, currentDate)
       IN /\ Len(ts) = 2
          /\ ts[1].id # ts[2].id
          /\ HasTask(ts, hist[1].id)

\* the form is the one a click on an empty slot opened, its start time as it
\* was filled in
SlotFormUntouched ==
    /\ modalOpen
    /\ ~Has(editingTask, "id") /\ Has(editingTask, "duration")
    /\ form.startTimeStr = InitForm(editingTask).startTimeStr

(* C26.  A click on an empty slot (hour, quarter) followed by a submit with  *)
(* the start time left as it is adds exactly one task, and its startMin is  *)
(* hour * 60 + quarter * 15, the slot at 00:00 included.                    *)
C26_SlotCreation ==
    [][(handleSubmit /\ SlotFormUntouched)
       => /\ Len(tasks') = Len(tasks) + 1
          /\ SubSeq(tasks', 1, Len(tasks)) = tasks
          /\ tasks'[Len(tasks')].startMin = editingTask.startMin]_vars

(* C27.  Opening the editor on a task of the list and submitting with no   *)
(* field of the form changed leaves the task list as it is, whatever the    *)
(* task's startMin, 0 included.                                             *)
C27_EditNoChange ==
    [][(/\ handleSubmit
        /\ Has(editingTask, "id")
        /\ form = InitForm(editingTask))
       => tasks' = tasks]_vars

(* C28.  When the task the pending undo record names has been deleted,     *)
(* performUndo leaves the task list as it is (the deleted task does not     *)
(* come back, no other task is changed) and clears the record and its timer.*)
C28_UndoAfterDelete ==
    [][(Armed /\ ~HasTask(tasks, lastUndoAction.taskId) /\ performUndo)
       => /\ tasks' = tasks
          /\ lastUndoAction' = Null
          /\ timers' = {}]_vars

\* performUndo found a record whose task was not in the list, and a task in
\* the list; the list is as it was
C28_Witness ==
    /\ Len(hist) = 1 /\ hist[1].op = "undo"
    /\ hist[1].rec # Null
    /\ ~HasTask(hist[1].before, hist[1].rec.taskId)
    /\ hist[1].before # <<>>
    /\ tasks = hist[1].before
    /\ ~Armed

(* C29.  performUndo changes nothing but the startMin of the task the      *)
(* pending record names: the length and order of the list, every other      *)
(* task, and the named task's id, title, duration, color and completion     *)
(* are as they were just before the undo, so what was edited after the move *)
(* stays.                                                                   *)
C29_UndoOnlyStartMin ==
    [][(Armed /\ performUndo)
       => /\ Len(tasks') = Len(tasks)
          /\ \A i \in 1..Len(tasks) :
                IF tasks[i].id = lastUndoAction.taskId
                THEN /\ tasks'[i].startMin = lastUndoAction.prevStartMin
                     /\ \A f \in DOMAIN tasks[i] \ {"startMin"} : tasks'[i][f] = tasks[i][f]
                     /\ DOMAIN tasks'[i] = DOMAIN tasks[i]
                ELSE tasks'[i] = tasks[i]]_vars

\* a move, then something else, then an undo that found the moved task
\* completed: the task is back where it was and still completed
C29_Witness ==
    /\ Len(hist) = 1 /\ hist[1].op = "undo"
    /\ hist[1].rec # Null
    /\ \E i \in 1..Len(tasks) :
          /\ tasks[i].id = hist[1].rec.taskId
          /\ hist[1].before[i].isCompleted /\ tasks[i].isCompleted
          /\ hist[1].before[i].startMin # hist[1].rec.prevStartMin
          /\ tasks[i].startMin = hist[1].rec.prevStartMin

(* C30.  A drop changes the startMin of one task at most, the task whose   *)
(* id is captured, and nothing else of the list; the captured id is the one *)
(* the latest handleDragStart since the last drop set (only handleDragStart *)
(* sets it, only a drop clears it); a drop with no id captured leaves the   *)
(* task list and the undo record with its timer as they are; after every    *)
(* drop no id is captured.                                                  *)
C30_DropMovesCaptured ==
    [][/\ (draggedTaskId' # draggedTaskId)
          => \/ \E id \in 1..MaxIds : handleDragStart(id) /\ draggedTaskId' = id
             \/ (\E s \in DragSlots : handleDrop(s[1], s[2])) /\ draggedTaskId' = 0
       /\ (\E s \in DragSlots : handleDrop(s[1], s[2]))
          => /\ draggedTaskId' = 0
             /\ Len(tasks') = Len(tasks)
             /\ Cardinality({i \in 1..Len(tasks) : tasks'[i] # tasks[i]}) <= 1
             /\ \A i \in 1..Len(tasks) :
                   /\ tasks[i].id # draggedTaskId => tasks'[i] = tasks[i]
                   /\ tasks'[i] = [tasks[i] EXCEPT !.startMin = tasks'[i].startMin]
             /\ draggedTaskId = 0
                => UNCHANGED <<tasks, lastUndoAction, undoTimeoutRef, timers>>]_vars

\* a task was dropped on the slot where the other task starts: it alone has
\* moved, and no id is captured any more
C30_Witness ==
    /\ LastOp = "move"
    /\ Len(tasks) = 2
    /\ tasks[1].startMin = tasks[2].startMin
    /\ draggedTaskId = 0 /\ dragOverSlot = Null

====
